---------------------------- MODULE Spec2Model ----------------------------
(***************************************************************************)
(* Verification model of the intake-analytics front end:                   *)
(*   - holtForecast (Holt's double exponential smoothing),                 *)
(*   - the IntakeAnalytics chart-data transformations that pivot the       *)
(*     API series into year rows and append forecast rows.                 *)
(*                                                                         *)
(* JavaScript numbers are modelled as exact finite decimals (a signed      *)
(* arbitrary-precision mantissa and a decimal exponent).  holtForecast is  *)
(* the smoothing in exact arithmetic; holtForecast64 is the same           *)
(* computation with every operation rounded to the nearest IEEE-754        *)
(* binary64 value, as the JavaScript engine computes it.                   *)
(***************************************************************************)
EXTENDS Integers, Sequences, FiniteSets, TLC

(***************************************************************************)
(* Bounds of the model.                                                    *)
(***************************************************************************)
MaxLen == 3
MaxVal == 4
MaxPeriods == 2
MaxPoints == 1
NumYears == 2
MaxInFlight == 2

(***************************************************************************)
(* Arbitrary-precision magnitudes: little-endian sequences of limbs in     *)
(* 0..Base-1 without high zero limbs.  This is the number representation,  *)
(* not program code.                                                       *)
(***************************************************************************)
Base == 100 * 100

RECURSIVE MagNorm(_)
MagNorm(x) ==
  IF x = <<>> THEN <<>>
  ELSE IF x[Len(x)] = 0 THEN MagNorm(SubSeq(x, 1, Len(x) - 1))
  ELSE x

RECURSIVE MagAddC(_, _, _)
MagAddC(x, y, c) ==
  IF x = <<>> /\ y = <<>> THEN (IF c = 0 THEN <<>> ELSE <<c>>)
  ELSE LET a == IF x = <<>> THEN 0 ELSE Head(x)
           b == IF y = <<>> THEN 0 ELSE Head(y)
           s == a + b + c
       IN  <<s % Base>> \o MagAddC(IF x = <<>> THEN <<>> ELSE Tail(x),
                                   IF y = <<>> THEN <<>> ELSE Tail(y),
                                   s \div Base)

MagAdd(x, y) == MagAddC(x, y, 0)

\* x - y - b for magnitudes with x >= y + b
RECURSIVE MagSubB(_, _, _)
MagSubB(x, y, b) ==
  IF x = <<>> THEN <<>>
  ELSE LET s == Head(x) - (IF y = <<>> THEN 0 ELSE Head(y)) - b
       IN  <<s % Base>> \o MagSubB(Tail(x),
                                   IF y = <<>> THEN <<>> ELSE Tail(y),
                                   IF s < 0 THEN 1 ELSE 0)

MagSub(x, y) == MagNorm(MagSubB(x, y, 0))

\* -1, 0, 1 as x < y, x = y, x > y
RECURSIVE MagCmpSame(_, _)
MagCmpSame(x, y) ==
  IF x = <<>> THEN 0
  ELSE IF x[Len(x)] < y[Len(y)] THEN -1
  ELSE IF x[Len(x)] > y[Len(y)] THEN 1
  ELSE MagCmpSame(SubSeq(x, 1, Len(x) - 1), SubSeq(y, 1, Len(y) - 1))

MagCmp(x, y) ==
  IF Len(x) < Len(y) THEN -1
  ELSE IF Len(x) > Len(y) THEN 1
  ELSE MagCmpSame(x, y)

RECURSIVE MagMulSmallC(_, _, _)
MagMulSmallC(x, k, c) ==
  IF x = <<>> THEN (IF c = 0 THEN <<>> ELSE <<c>>)
  ELSE LET s == Head(x) * k + c
       IN  <<s % Base>> \o MagMulSmallC(Tail(x), k, s \div Base)

\* x * k for 0 <= k < Base
MagMulSmall(x, k) == IF k = 0 THEN <<>> ELSE MagMulSmallC(x, k, 0)

RECURSIVE MagMul(_, _)
MagMul(x, y) ==
  IF x = <<>> \/ y = <<>> THEN <<>>
  ELSE MagAdd(MagMulSmall(y, Head(x)),
              LET r == MagMul(Tail(x), y) IN IF r = <<>> THEN <<>> ELSE <<0>> \o r)

\* quotient and remainder of x by a small k > 0
RECURSIVE MagDivRem(_, _)
MagDivRem(x, k) ==
  IF x = <<>> THEN [q |-> <<>>, r |-> 0]
  ELSE LET hi  == MagDivRem(Tail(x), k)
           cur == hi.r * Base + Head(x)
       IN  [q |-> <<cur \div k>> \o hi.q, r |-> cur % k]

RECURSIVE MagTimesPow10(_, _)
MagTimesPow10(x, n) ==
  IF n = 0 \/ x = <<>> THEN x
  ELSE IF n >= 3 THEN MagTimesPow10(MagMulSmall(x, 10^3), n - 3)
  ELSE MagMulSmall(x, 10^n)

(***************************************************************************)
(* JavaScript values: numbers (exact decimals s * d / 10^e), null,         *)
(* undefined and NaN.                                                      *)
(***************************************************************************)
Null      == [t |-> "null"]
Undefined == [t |-> "undefined"]
NaN       == [t |-> "NaN"]

MkNum(s, d, e) == [t |-> "num", s |-> s, d |-> d, e |-> e]

\* canonical form: no trailing decimal zeros in the fraction, zero is +0
RECURSIVE DecNorm(_)
DecNorm(x) ==
  IF x.d = <<>> THEN MkNum(1, <<>>, 0)
  ELSE IF x.e > 0 /\ Head(x.d) % 10 = 0
       THEN DecNorm(MkNum(x.s, MagNorm(MagDivRem(x.d, 10).q), x.e - 1))
       ELSE x

Num(n) == IF n >= 0 THEN MkNum(1, MagNorm(<<n % Base, n \div Base>>), 0)
          ELSE MkNum(-1, MagNorm(<<(-n) % Base, (-n) \div Base>>), 0)

\* a / 10^e for a small integer a
Dec(a, e) == DecNorm([Num(a) EXCEPT !.e = e])

IsNum(v) == v.t = "num"

DecNeg(x) == IF x.d = <<>> THEN x ELSE [x EXCEPT !.s = -x.s]

DecAdd(x, y) ==
  LET e  == IF x.e > y.e THEN x.e ELSE y.e
      xd == MagTimesPow10(x.d, e - x.e)
      yd == MagTimesPow10(y.d, e - y.e)
      c  == MagCmp(xd, yd)
  IN  IF x.s = y.s THEN DecNorm(MkNum(x.s, MagAdd(xd, yd), e))
      ELSE IF c = 0 THEN MkNum(1, <<>>, 0)
      ELSE IF c > 0 THEN DecNorm(MkNum(x.s, MagSub(xd, yd), e))
      ELSE DecNorm(MkNum(y.s, MagSub(yd, xd), e))

DecSub(x, y) == DecAdd(x, DecNeg(y))

DecMul(x, y) == DecNorm(MkNum(x.s * y.s, MagMul(x.d, y.d), x.e + y.e))

DecIsNeg(x) == x.s = -1 /\ x.d # <<>>
DecLt(x, y)  == DecIsNeg(DecSub(x, y))
DecLeq(x, y) == ~DecLt(y, x)
DecGt(x, y)  == DecLt(y, x)
DecGeq(x, y) == ~DecLt(x, y)

\* floor of a decimal, as an integer-valued decimal
RECURSIVE DecFloor(_)
DecFloor(x) ==
  IF x.e = 0 THEN DecNorm(x)
  ELSE LET qr == MagDivRem(x.d, 10)
           q  == MagNorm(qr.q)
           up == x.s = -1 /\ qr.r # 0
       IN  DecFloor(MkNum(x.s, IF up THEN MagAdd(q, <<1>>) ELSE q, x.e - 1))

\* Math.round: floor(x + 0.5)
MathRound(x) == DecFloor(DecAdd(x, Dec(5, 1)))

\* decimal places kept by a quotient that does not terminate earlier
DivDigits == 4 * 5

\* x / y for a divisor whose mantissa is a single limb (the intake counts);
\* exact when the quotient has at most DivDigits more decimals than x,
\* truncated there otherwise
DecDiv(x, y) ==
  LET qd == MagNorm(MagDivRem(MagTimesPow10(x.d, DivDigits + y.e), y.d[1]).q)
  IN  DecNorm(MkNum(x.s * y.s, qd, x.e + DivDigits))

\* parseFloat(x.toFixed(1)): the magnitude rounded to one decimal, ties up
ToFixed1(x) ==
  LET a == IF DecIsNeg(x) THEN DecNeg(x) ELSE x
      r == DecMul(MathRound(DecMul(a, Num(10))), Dec(1, 1))
  IN  IF DecIsNeg(x) THEN DecNeg(r) ELSE r

(***************************************************************************)
(* holtForecast                                                            *)
(***************************************************************************)
DefaultAlpha == Dec(3, 1)
DefaultBeta  == Dec(1, 1)

\* values.filter((v) => v != null && !isNaN(v)): keeps the numbers
HoltFilter(v) == IsNum(v)

HoltData_nullAsZero(vals) ==
  [i \in DOMAIN vals |-> IF HoltFilter(vals[i]) THEN vals[i] ELSE Num(0)]

HoltData(vals) == SelectSeq(vals, HoltFilter)

HoltTooShort_three(data) == Len(data) < 3

\* if (data.length < 2) return []
HoltTooShort(data) == Len(data) < 2

HoltInitTrend_flipped(data) == DecSub(data[1], data[2])

\* let trend = data[1] - data[0]   (1-based here)
HoltInitTrend(data) == DecSub(data[2], data[1])

\* the smoothing loop from index i on; returns the final level and trend
RECURSIVE HoltSmooth(_, _, _, _, _, _)
HoltSmooth(data, i, level0, trend0, alpha0, beta0) ==
  IF i > Len(data) THEN [level |-> level0, trend |-> trend0]
  ELSE LET prevLevel == level0
           level == DecAdd(DecMul(alpha0, data[i]),
                           DecMul(DecSub(Num(1), alpha0), DecAdd(prevLevel, trend0)))
           trend == DecAdd(DecMul(beta0, DecSub(level, prevLevel)),
                           DecMul(DecSub(Num(1), beta0), trend0))
       IN  HoltSmooth(data, i + 1, level, trend, alpha0, beta0)

HoltStep_offByOne(level, trend, h) == DecAdd(level, DecMul(Num(h - 1), trend))

HoltStep_flat(level, trend, h) == DecAdd(level, trend)

\* forecasts.push(level + h * trend)
HoltStep(level, trend, h) == DecAdd(level, DecMul(Num(h), trend))

holtForecast(vals, nPeriods, alphaArg, betaArg) ==
  LET alpha0 == IF alphaArg = Undefined THEN DefaultAlpha ELSE alphaArg
      beta0  == IF betaArg = Undefined THEN DefaultBeta ELSE betaArg
      data   == HoltData(vals)
  IN  IF HoltTooShort(data) THEN <<>>
      ELSE LET fin == HoltSmooth(data, 2, data[1], HoltInitTrend(data), alpha0, beta0)
           IN  [h \in 1..nPeriods |-> HoltStep(fin.level, fin.trend, h)]

(***************************************************************************)
(* IEEE-754 binary64: a finite double is s * m * 2^k for a sign s, a       *)
(* magnitude m <= 2^53 and an integer k; the result of an operation is the *)
(* exact result rounded to the nearest double, ties to even.  Subnormal    *)
(* numbers and overflow are out of the range of the model.                 *)
(***************************************************************************)
\* x * 2^n
RECURSIVE MagShl(_, _)
MagShl(x, n) ==
  IF n = 0 \/ x = <<>> THEN x
  ELSE IF n >= 13 THEN MagShl(MagMulSmall(x, 2^13), n - 13)
  ELSE MagMulSmall(x, 2^n)

\* x * 5^n
RECURSIVE MagTimesPow5(_, _)
MagTimesPow5(x, n) ==
  IF n = 0 \/ x = <<>> THEN x
  ELSE IF n >= 5 THEN MagTimesPow5(MagMulSmall(x, 5^5), n - 5)
  ELSE MagMulSmall(x, 5^n)

Two53 == MagShl(<<1>>, 53)
Two66 == MagShl(<<1>>, 66)

MagIsOdd(x) == x # <<>> /\ x[1] % 2 = 1

\* drops low bits of m until m < 2^53; guard is the last bit dropped and
\* sticky tells whether anything below it was non-zero; then rounds
RECURSIVE F64Shift(_, _, _, _)
F64Shift(m, k, guard, sticky) ==
  IF MagCmp(m, Two53) < 0
  THEN [m |-> IF guard /\ (sticky \/ MagIsOdd(m)) THEN MagAdd(m, <<1>>) ELSE m, k |-> k]
  ELSE IF MagCmp(m, Two66) >= 0
  THEN LET qr == MagDivRem(m, 2^13)
       IN  F64Shift(MagNorm(qr.q), k + 13, qr.r >= 2^12,
                    sticky \/ guard \/ qr.r % 2^12 # 0)
  ELSE LET qr == MagDivRem(m, 2)
       IN  F64Shift(MagNorm(qr.q), k + 1, qr.r = 1, sticky \/ guard)

F64Zero == [s |-> 1, m |-> <<>>, k |-> 0]

\* the double nearest to s * m * 2^k
F64Round(s, m, k) ==
  IF m = <<>> THEN F64Zero
  ELSE LET r == F64Shift(m, k, FALSE, FALSE) IN [s |-> s, m |-> r.m, k |-> r.k]

F64Neg(x) == IF x.m = <<>> THEN x ELSE [x EXCEPT !.s = -x.s]

\* x + y
F64Add(x, y) ==
  LET k  == IF x.k < y.k THEN x.k ELSE y.k
      xm == MagShl(x.m, x.k - k)
      ym == MagShl(y.m, y.k - k)
      c  == MagCmp(xm, ym)
  IN  IF x.s = y.s THEN F64Round(x.s, MagAdd(xm, ym), k)
      ELSE IF c = 0 THEN F64Zero
      ELSE IF c > 0 THEN F64Round(x.s, MagSub(xm, ym), k)
      ELSE F64Round(y.s, MagSub(ym, xm), k)

\* x - y
F64Sub(x, y) == F64Add(x, F64Neg(y))

\* x * y
F64Mul(x, y) == F64Round(x.s * y.s, MagMul(x.m, y.m), x.k + y.k)

\* the double of a number literal s * d / 10^e with at most 3 decimals
F64Literal(x) ==
  IF x.d = <<>> THEN F64Zero
  ELSE IF x.e = 0 THEN F64Round(x.s, x.d, 0)
  ELSE LET qr == MagDivRem(MagShl(x.d, 70), 10^(x.e))
           r  == F64Shift(MagNorm(qr.q), -70, FALSE, qr.r # 0)
       IN  [s |-> x.s, m |-> r.m, k |-> r.k]

\* the exact decimal value of a double
F64Value(x) ==
  IF x.k >= 0 THEN DecNorm(MkNum(x.s, MagShl(x.m, x.k), 0))
  ELSE DecNorm(MkNum(x.s, MagTimesPow5(x.m, -x.k), -x.k))

\* the smoothing loop of holtForecast on doubles
RECURSIVE HoltSmooth64(_, _, _, _, _, _)
HoltSmooth64(data, i, level0, trend0, alpha0, beta0) ==
  IF i > Len(data) THEN [level |-> level0, trend |-> trend0]
  ELSE LET prevLevel == level0
           level == F64Add(F64Mul(alpha0, F64Literal(data[i])),
                           F64Mul(F64Sub(F64Literal(Num(1)), alpha0),
                                  F64Add(prevLevel, trend0)))
           trend == F64Add(F64Mul(beta0, F64Sub(level, prevLevel)),
                           F64Mul(F64Sub(F64Literal(Num(1)), beta0), trend0))
       IN  HoltSmooth64(data, i + 1, level, trend, alpha0, beta0)

HoltStep64_offByOne(level, trend, h) ==
  F64Add(level, F64Mul(F64Literal(Num(h - 1)), trend))

\* forecasts.push(level + h * trend) on doubles
HoltStep64(level, trend, h) == F64Add(level, F64Mul(F64Literal(Num(h)), trend))

\* holtForecast as the engine computes it: the returned doubles, each given
\* by its exact decimal value
holtForecast64(vals, nPeriods, alphaArg, betaArg) ==
  LET alpha0 == F64Literal(IF alphaArg = Undefined THEN DefaultAlpha ELSE alphaArg)
      beta0  == F64Literal(IF betaArg = Undefined THEN DefaultBeta ELSE betaArg)
      data   == HoltData(vals)
  IN  IF HoltTooShort(data) THEN <<>>
      ELSE LET fin == HoltSmooth64(data, 2, F64Literal(data[1]),
                                   F64Sub(F64Literal(data[2]), F64Literal(data[1])),
                                   alpha0, beta0)
           IN  [h \in 1..nPeriods |->
                  F64Value(HoltStep64(fin.level, fin.trend, h))]

(***************************************************************************)
(* State                                                                   *)
(***************************************************************************)
VARIABLES
  values, periods, alpha, beta,   \* arguments of a holtForecast call
  forecasts,                      \* its return value
  pc,                             \* "call" before the call, "done" after
  timeSeriesResult,               \* IntakeAnalytics: useState values
  comparativeResult,
  genderComparisonResult,
  selectedInstitutions,
  yearFrom, yearTo,
  showForecast,
  analysisMode,
  effectDeps,                     \* [yearTo, maxYear] of the render the auto-disable effect last ran for
  groupByResult,
  sex,
  isRefreshing,
  sexCall,                        \* the handleSexChange call in flight
  devMode,                        \* App: the DEV_MODE flag of the build
  authStatus,                     \* useAuthenticator: authStatus
  path,                           \* the router location
  fromPath,                       \* location.state.from
  requests,                       \* the HTTP requests sent to the backend API
  job,                            \* submitAndWaitForResult: stage of the job
  maxAttempts, initialDelay,      \* pollJobResult: its arguments
  attempts, delay,                \* pollJobResult: its locals
  pollPc,                         \* pollJobResult: where the call stands
  statusRequests,                 \* number of GET /api/v1/jobs/{jobId} sent by the call
  lastStatus,                     \* job.status of the latest status response
  waits,                          \* the delays of the timers the call has set, in order
  mounted,                        \* DashboardPage is mounted
  selectedJobId,                  \* DashboardPage: useState; the jobId argument of useJobPoll
  hookDeps,                       \* the jobId the effect of useJobPoll last ran for
  selectedJob, jobError, isPolling,  \* useJobPoll: job, error, isPolling
  getJobRequests,                 \* getJob calls in flight, each with the isMounted of its effect
  timers,                         \* pending timers of window.setTimeout(poll, 1500)
  lastResponse,                   \* outcome of the latest getJob call of the current effect
  resultDue,                      \* selectedJob changed since the result effect last ran
  result, downloadUrl,            \* DashboardPage: useState
  resultError, downloadError,
  resultRequests,                 \* getResult and getDownloadUrl calls in flight, each with
                                  \* the active flag of its effect
  comparativeDeps,                \* [selectedInstitutions, sex] the comparative fetch effect
                                  \* last ran for
  comparativeRequests             \* getComparative calls of the effect in flight

holtVars  == <<values, periods, alpha, beta, forecasts, pc>>
dataVars  == <<timeSeriesResult, comparativeResult, genderComparisonResult>>
chartVars == <<dataVars, selectedInstitutions, yearFrom, yearTo, showForecast, analysisMode>>
refetchVars == <<groupByResult, sex, isRefreshing, sexCall>>
appVars == <<devMode, authStatus, path, fromPath, requests, job>>
pollVars == <<maxAttempts, initialDelay, attempts, delay, pollPc, statusRequests, lastStatus,
              waits>>
hookVars == <<mounted, selectedJobId, hookDeps, selectedJob, jobError, isPolling,
              getJobRequests, timers, lastResponse>>
resultVars == <<resultDue, result, downloadUrl, resultError, downloadError, resultRequests>>
pageVars == <<hookVars, resultVars>>
raceVars == <<comparativeDeps, comparativeRequests>>
asyncVars == <<pollVars, pageVars, raceVars>>
extVars == <<refetchVars, appVars, asyncVars>>
vars == <<holtVars, chartVars, effectDeps, extVars>>

(***************************************************************************)
(* IntakeAnalytics: derived values and chart-data transformations.         *)
(* A JobResult is Null or [series |-> <<[name, points]>>] with points a    *)
(* sequence of [x |-> year, y |-> number].  A chart row is a function from *)
(* its keys to values; a key the code never set is absent from the domain. *)
(***************************************************************************)
FORECAST_YEARS  == 5
DefaultMinYear  == 1982
DefaultMaxYear  == 2024
DefaultYearFrom == 2015

INSTITUTION_LABELS ==
  [k \in {"nus", "ntu", "smu", "sit"} |->
     CASE k = "nus" -> "NUS" [] k = "ntu" -> "NTU" [] k = "smu" -> "SMU" [] k = "sit" -> "SIT"]

\* INSTITUTION_LABELS[key] || key
getInstitutionLabel(key) ==
  IF key \in DOMAIN INSTITUTION_LABELS THEN INSTITUTION_LABELS[key] ELSE key

Range(f) == {f[i] : i \in DOMAIN f}

SetMax(S) == CHOOSE m \in S : \A n \in S : n <= m
SetMin(S) == CHOOSE m \in S : \A n \in S : m <= n

HasFirstSeriesPoints(jobResult) ==
  /\ jobResult # Null
  /\ Len(jobResult.series) > 0

minYear ==
  IF ~HasFirstSeriesPoints(timeSeriesResult) THEN DefaultMinYear
  ELSE SetMin({pt.x : pt \in Range(timeSeriesResult.series[1].points)})

maxYear ==
  IF ~HasFirstSeriesPoints(timeSeriesResult) THEN DefaultMaxYear
  ELSE SetMax({pt.x : pt \in Range(timeSeriesResult.series[1].points)})

Includes(list, x) == \E i \in DOMAIN list : list[i] = x

\* row[key], undefined when the key is absent
Get(row, key) == IF key \in DOMAIN row THEN row[key] ELSE Undefined

\* row[key] = v
SetKey(row, key, v) == [k \in DOMAIN row \cup {key} |-> IF k = key THEN v ELSE row[k]]

\* { year, isForecast: false }
NewRow(year) == ("year" :> year) @@ ("isForecast" :> FALSE)

InYearRange_noUpper(year) == year >= yearFrom

\* year >= yearFrom && year <= yearTo
InYearRange(year) == year >= yearFrom /\ year <= yearTo

PivotCell_zeroKept(y) == IF DecGeq(y, Num(0)) THEN y ELSE Null

\* p.y > 0 ? p.y : null
PivotCell(y) == IF DecGt(y, Num(0)) THEN y ELSE Null

\* series.points.forEach(...) from point j on
RECURSIVE PivotPoints(_, _, _, _)
PivotPoints(yearData, points, j, label) ==
  IF j > Len(points) THEN yearData
  ELSE LET year == points[j].x
       IN  IF InYearRange(year)
           THEN LET yd == IF year \in DOMAIN yearData THEN yearData
                          ELSE yearData @@ (year :> NewRow(year))
                IN  PivotPoints([yd EXCEPT ![year] = SetKey(@, label, PivotCell(points[j].y))],
                                points, j + 1, label)
           ELSE PivotPoints(yearData, points, j + 1, label)

\* comparativeResult.visualization.series.forEach(...) from series s on
RECURSIVE TrendYearData(_, _, _)
TrendYearData(yearData, series, s) ==
  IF s > Len(series) THEN yearData
  ELSE LET instKey == series[s].name
       IN  IF Includes(selectedInstitutions, instKey)
           THEN TrendYearData(PivotPoints(yearData, series[s].points, 1,
                                          getInstitutionLabel(instKey)),
                              series, s + 1)
           ELSE TrendYearData(yearData, series, s + 1)

\* Object.values(yearData).sort((a, b) => a.year - b.year)
RECURSIVE SortByYear(_)
SortByYear(yearData) ==
  IF DOMAIN yearData = {} THEN <<>>
  ELSE LET y0 == SetMin(DOMAIN yearData)
       IN  <<yearData[y0]>> \o SortByYear([y \in DOMAIN yearData \ {y0} |-> yearData[y]])

ForecastKey(inst) == inst \o "_forecast"

ConnectKey_move(lastHistorical, inst) ==
  IF Get(lastHistorical, inst) \notin {Null, Undefined}
  THEN SetKey(SetKey(lastHistorical, ForecastKey(inst), lastHistorical[inst]), inst, Null)
  ELSE lastHistorical

\* if (lastHistorical[inst] != null) lastHistorical[`${inst}_forecast`] = lastHistorical[inst]
ConnectKey(lastHistorical, inst) ==
  IF Get(lastHistorical, inst) \notin {Null, Undefined}
  THEN SetKey(lastHistorical, ForecastKey(inst), lastHistorical[inst])
  ELSE lastHistorical

\* institutions.forEach(...) on the last historical row, from key k on
RECURSIVE ConnectForecast(_, _, _)
ConnectForecast(lastHistorical, keys, k) ==
  IF k > Len(keys) THEN lastHistorical
  ELSE ConnectForecast(ConnectKey(lastHistorical, keys[k]), keys, k + 1)

\* the histValues of each key and their forecast
ForecastsBy(historicalData, keys) ==
  [key \in Range(keys) |->
     holtForecast([d \in DOMAIN historicalData |-> Get(historicalData[d], key)],
                  FORECAST_YEARS, Undefined, Undefined)]

FillForecast_noNull(forecastPoint, inst, forecastsBy, i) ==
  IF Len(forecastsBy[inst]) >= i
  THEN SetKey(forecastPoint, ForecastKey(inst), MathRound(forecastsBy[inst][i]))
  ELSE forecastPoint

\* if (forecastsByInst[inst]?.length >= i) { ..._forecast = Math.round(...); [inst] = null }
FillForecast(forecastPoint, inst, forecastsBy, i) ==
  IF Len(forecastsBy[inst]) >= i
  THEN SetKey(SetKey(forecastPoint, ForecastKey(inst), MathRound(forecastsBy[inst][i])),
              inst, Null)
  ELSE forecastPoint

\* institutions.forEach(...) on the forecast row of step i, from key k on
RECURSIVE ForecastPoint(_, _, _, _, _)
ForecastPoint(forecastPoint, keys, k, forecastsBy, i) ==
  IF k > Len(keys) THEN forecastPoint
  ELSE ForecastPoint(FillForecast(forecastPoint, keys[k], forecastsBy, i),
                     keys, k + 1, forecastsBy, i)

ForecastEnabled_anyLength(historicalData) ==
  showForecast /\ yearTo = maxYear /\ Len(historicalData) >= 1

ForecastEnabled_anyWindow(historicalData) ==
  showForecast /\ Len(historicalData) >= 2

\* if (showForecast && yearTo === maxYear && historicalData.length >= 2)
ForecastEnabled(historicalData) ==
  showForecast /\ yearTo = maxYear /\ Len(historicalData) >= 2

\* the forecast block of the count charts: anchor the last row, append the rows
AddForecast(historicalData, keys) ==
  IF ~ForecastEnabled(historicalData) THEN historicalData
  ELSE LET forecastsBy == ForecastsBy(historicalData, keys)
           n == Len(historicalData)
           connected == [historicalData EXCEPT ![n] = ConnectForecast(@, keys, 1)]
       IN  connected \o
           [i \in 1..FORECAST_YEARS |->
              ForecastPoint(("year" :> maxYear + i) @@ ("isForecast" :> TRUE),
                            keys, 1, forecastsBy, i)]

HasSeries(jobResult) == jobResult # Null /\ Len(jobResult.series) > 0

\* historicalData of trend mode
TrendHistorical == SortByYear(TrendYearData(<<>>, comparativeResult.series, 1))

\* fallback to the total time series
TrendTotals ==
  IF timeSeriesResult = Null THEN <<>>
  ELSE LET points == IF Len(timeSeriesResult.series) > 0
                     THEN timeSeriesResult.series[1].points ELSE <<>>
           kept == SelectSeq(points, LAMBDA pt : InYearRange(pt.x))
       IN  [i \in DOMAIN kept |->
              ("year" :> kept[i].x) @@ ("Total" :> kept[i].y) @@ ("isForecast" :> FALSE)]

trendChartData ==
  IF analysisMode # "trend" THEN <<>>
  ELSE IF HasSeries(comparativeResult)
       THEN AddForecast(TrendHistorical,
                        [i \in DOMAIN selectedInstitutions |->
                           getInstitutionLabel(selectedInstitutions[i])])
       ELSE TrendTotals

genderKeys == <<"Male", "Female">>

\* genderComparisonResult.visualization.series.forEach(...) from series s on
RECURSIVE GenderYearData(_, _, _)
GenderYearData(yearData, series, s) ==
  IF s > Len(series) THEN yearData
  ELSE LET sexKey == series[s].name
       IN  IF sexKey # "M" /\ sexKey # "F"
           THEN GenderYearData(yearData, series, s + 1)
           ELSE GenderYearData(PivotPoints(yearData, series[s].points, 1,
                                           IF sexKey = "M" THEN "Male" ELSE "Female"),
                               series, s + 1)

GenderHistorical == SortByYear(GenderYearData(<<>>, genderComparisonResult.series, 1))

genderChartData ==
  IF analysisMode # "gender" THEN <<>>
  ELSE IF HasSeries(genderComparisonResult)
       THEN AddForecast(GenderHistorical, genderKeys)
       ELSE <<>>

\* [...series.points].sort((a, b) => a.x - b.x): stable insertion of point p
RECURSIVE InsertByYear(_, _)
InsertByYear(sorted, p) ==
  IF sorted = <<>> THEN <<p>>
  ELSE IF sorted[Len(sorted)].x <= p.x THEN Append(sorted, p)
  ELSE Append(InsertByYear(SubSeq(sorted, 1, Len(sorted) - 1), p), sorted[Len(sorted)])

RECURSIVE SortPoints(_)
SortPoints(points) ==
  IF points = <<>> THEN <<>>
  ELSE InsertByYear(SortPoints(SubSeq(points, 1, Len(points) - 1)), points[Len(points)])

\* prev.y !== 0 ? ((curr.y - prev.y) / prev.y) * 100 : null
GrowthRate(curr, prev) ==
  IF prev.y # Num(0) THEN DecMul(DecDiv(DecSub(curr.y, prev.y), prev.y), Num(100)) ELSE Null

\* for (let i = 1; i < sortedPoints.length; i++) from point i on (1-based: i >= 2)
RECURSIVE GrowthPoints(_, _, _, _)
GrowthPoints(yearData, sortedPoints, i, label) ==
  IF i > Len(sortedPoints) THEN yearData
  ELSE LET curr == sortedPoints[i]
           prev == sortedPoints[i - 1]
           year == curr.x
           prevYear == prev.x
       IN  IF InYearRange(year) /\ prevYear = year - 1
           THEN LET yd == IF year \in DOMAIN yearData THEN yearData
                          ELSE yearData @@ (year :> NewRow(year))
                IN  GrowthPoints([yd EXCEPT ![year] = SetKey(@, label, GrowthRate(curr, prev))],
                                 sortedPoints, i + 1, label)
           ELSE IF InYearRange(year) /\ year \notin DOMAIN yearData
           THEN GrowthPoints(yearData @@ (year :> NewRow(year)), sortedPoints, i + 1, label)
           ELSE GrowthPoints(yearData, sortedPoints, i + 1, label)

\* comparativeResult.visualization.series.forEach(...) from series s on
RECURSIVE GrowthYearData(_, _, _)
GrowthYearData(yearData, series, s) ==
  IF s > Len(series) THEN yearData
  ELSE LET instKey == series[s].name
       IN  IF Includes(selectedInstitutions, instKey)
           THEN GrowthYearData(GrowthPoints(yearData, SortPoints(series[s].points), 2,
                                            getInstitutionLabel(instKey)),
                               series, s + 1)
           ELSE GrowthYearData(yearData, series, s + 1)

GrowthFill_rounded(forecastPoint, inst, forecastsBy, i) ==
  IF Len(forecastsBy[inst]) >= i
  THEN SetKey(SetKey(forecastPoint, ForecastKey(inst), MathRound(forecastsBy[inst][i])),
              inst, Null)
  ELSE forecastPoint

\* if (forecastsByInst[inst]?.length >= i) { ..._forecast = parseFloat(....toFixed(1)); [inst] = null }
GrowthFill(forecastPoint, inst, forecastsBy, i) ==
  IF Len(forecastsBy[inst]) >= i
  THEN SetKey(SetKey(forecastPoint, ForecastKey(inst), ToFixed1(forecastsBy[inst][i])),
              inst, Null)
  ELSE forecastPoint

\* institutions.forEach(...) on the growth forecast row of step i, from key k on
RECURSIVE GrowthForecastPoint(_, _, _, _, _)
GrowthForecastPoint(forecastPoint, keys, k, forecastsBy, i) ==
  IF k > Len(keys) THEN forecastPoint
  ELSE GrowthForecastPoint(GrowthFill(forecastPoint, keys[k], forecastsBy, i),
                           keys, k + 1, forecastsBy, i)

\* the forecast block of the growth chart
GrowthAddForecast(historicalData, keys) ==
  IF ~ForecastEnabled(historicalData) THEN historicalData
  ELSE LET forecastsBy == ForecastsBy(historicalData, keys)
           n == Len(historicalData)
           connected == [historicalData EXCEPT ![n] = ConnectForecast(@, keys, 1)]
       IN  connected \o
           [i \in 1..FORECAST_YEARS |->
              GrowthForecastPoint(("year" :> maxYear + i) @@ ("isForecast" :> TRUE),
                                  keys, 1, forecastsBy, i)]

\* historicalData of growth mode
GrowthHistorical == SortByYear(GrowthYearData(<<>>, comparativeResult.series, 1))

growthChartData ==
  IF analysisMode # "growth" THEN <<>>
  ELSE IF HasSeries(comparativeResult)
       THEN GrowthAddForecast(GrowthHistorical,
                              [i \in DOMAIN selectedInstitutions |->
                                 getInstitutionLabel(selectedInstitutions[i])])
       ELSE <<>>

\* .sort((a, b) => b.intake - a.intake): stable insertion of row r
RECURSIVE InsertByIntake(_, _)
InsertByIntake(sorted, r) ==
  IF sorted = <<>> THEN <<r>>
  ELSE IF DecGeq(sorted[Len(sorted)]["intake"], r["intake"]) THEN Append(sorted, r)
  ELSE Append(InsertByIntake(SubSeq(sorted, 1, Len(sorted) - 1), r), sorted[Len(sorted)])

RECURSIVE SortByIntake(_)
SortByIntake(rows) ==
  IF rows = <<>> THEN <<>>
  ELSE InsertByIntake(SortByIntake(SubSeq(rows, 1, Len(rows) - 1)), rows[Len(rows)])

\* comparison mode: the group-by points of the selected institutions
comparisonChartData ==
  IF analysisMode # "comparison" \/ groupByResult = Null THEN <<>>
  ELSE LET points == IF Len(groupByResult.series) > 0
                     THEN groupByResult.series[1].points ELSE <<>>
           kept == SelectSeq(points, LAMBDA pt : Includes(selectedInstitutions, pt.x))
       IN  SortByIntake([i \in DOMAIN kept |->
                           ("institution" :> getInstitutionLabel(kept[i].x))
                             @@ ("institutionKey" :> kept[i].x)
                             @@ ("intake" :> kept[i].y)])

\* d => !d.isForecast
NotForecast(d) == ~d["isForecast"]

\* the rows given to the raw-data table
tableData ==
  CASE analysisMode = "trend"      -> SelectSeq(trendChartData, NotForecast)
    [] analysisMode = "comparison" -> comparisonChartData
    [] analysisMode = "growth"     -> SelectSeq(growthChartData, NotForecast)
    [] analysisMode = "gender"     -> genderChartData
    [] OTHER -> <<>>

\* the forecast option card is offered
needsForecastOption ==
  analysisMode \in {"trend", "growth", "gender"} /\ yearTo = maxYear

\* the auto-disable effect has run for the current [yearTo, maxYear]; React
\* runs a pending effect before it handles the next event or update
EffectsFlushed == effectDeps = <<yearTo, maxYear>>

(***************************************************************************)
(* Input spaces                                                            *)
(***************************************************************************)
RECURSIVE SeqsUpTo(_, _)
SeqsUpTo(S, n) ==
  IF n = 0 THEN {<<>>}
  ELSE LET shorter == SeqsUpTo(S, n - 1)
       IN  shorter \cup {Append(s, x) : s \in {t \in shorter : Len(t) = n - 1}, x \in S}

HoltEntries == {Null, Undefined, NaN} \cup {Num(n) : n \in 0..MaxVal}

Smoothing == {<<Undefined, Undefined>>, <<Num(1), Num(1)>>, <<Dec(5, 1), Dec(5, 1)>>}

GoldenSeries == {<<Num(10), Num(20), Num(30), Num(40)>>,
                 <<Num(10), Null, Num(12), Null, Num(14)>>,
                 <<Num(10), Num(12), Num(14)>>}

\* a call with its own horizon and explicit smoothing constants
NusIntake == <<Num(8850), Num(9050), Num(9250), Num(9480), Num(9720), Num(9980)>>

GoldenCalls ==
  {[values |-> NusIntake, periods |-> 3, alpha |-> Dec(3, 1), beta |-> Dec(1, 1)]}

\* the years the modelled backend has data for: the last NumYears years
FirstYear == DefaultMaxYear - NumYears + 1
DataYears == FirstYear..DefaultMaxYear

PointYs == {Num(-1), Num(0), Num(8)}

\* one series of arbitrary points: any order, repeated years allowed
FreePoints == SeqsUpTo([x : DataYears, y : PointYs], MaxPoints)

\* a second series: one point every year, or the first and last year only
RefFull == [i \in 1..NumYears |-> [x |-> FirstYear + i - 1, y |-> Num(3 + i)]]
RefGap  == <<[x |-> DefaultMaxYear, y |-> Num(7)], [x |-> FirstYear, y |-> Num(4)]>>

Response(series) == [series |-> series]
Series(name, points) == [name |-> name, points |-> points]

ComparativeResponses ==
  {Null, Response(<<>>)}
  \cup {Response(<<Series("nus", fp), Series("ntu", RefFull)>>) : fp \in FreePoints}
  \cup {Response(<<Series("ntu", RefGap), Series("nus", fp)>>) : fp \in FreePoints}

GenderResponses ==
  {Null, Response(<<>>)}
  \cup {Response(<<Series("MF", RefFull), Series("F", RefGap), Series("M", fp)>>) :
          fp \in FreePoints}

\* the total series up to year `last`
TimeSeries(last) ==
  Response(<<Series("Total", [i \in 1..(last - FirstYear + 1) |->
                                [x |-> FirstYear + i - 1, y |-> Num(20 + i)]])>>)

TimeSeriesResponses == {TimeSeries(DefaultMaxYear), TimeSeries(DefaultMaxYear - 1)}

\* multi-year data for the forecastable modes: NumYears + 2 years
ModeFirstYear == FirstYear - 2
ModeYears == ModeFirstYear..DefaultMaxYear

\* intake counts whose year-on-year growth rates are finite decimals:
\* 100, 125, 160, 200, 250, 320, ...
Intake(i) ==
  LET k == (i - 1) % 3
      m == (i - 1) \div 3
  IN  (CASE k = 0 -> 100 [] k = 1 -> 125 [] OTHER -> 160) * 2^m

RisingPoints(first, last) ==
  [i \in 1..(last - first + 1) |-> [x |-> first + i - 1, y |-> Num(Intake(i))]]

FallingPoints(first, last) ==
  [i \in 1..(last - first + 1) |->
     [x |-> first + i - 1, y |-> Num(Intake(last - first + 2 - i))]]

\* a series given out of year order, with a gap before its last point
UnsortedGap ==
  <<[x |-> DefaultMaxYear, y |-> Num(250)],
    [x |-> ModeFirstYear, y |-> Num(100)],
    [x |-> ModeFirstYear + 1, y |-> Num(125)]>>

\* two points only, the first with a zero count
ShortZero ==
  <<[x |-> DefaultMaxYear - 1, y |-> Num(0)], [x |-> DefaultMaxYear, y |-> Num(8)]>>

ModeComparativeResponses ==
  {Null,
   Response(<<Series("nus", RisingPoints(ModeFirstYear, DefaultMaxYear)),
              Series("ntu", FallingPoints(ModeFirstYear, DefaultMaxYear - 1))>>),
   Response(<<Series("ntu", UnsortedGap),
              Series("nus", FallingPoints(ModeFirstYear, DefaultMaxYear))>>),
   Response(<<Series("nus", ShortZero)>>)}

ModeGenderResponses ==
  {Null,
   Response(<<Series("M", RisingPoints(ModeFirstYear, DefaultMaxYear)),
              Series("F", FallingPoints(ModeFirstYear, DefaultMaxYear))>>)}

ModeTimeSeriesResponses ==
  {Response(<<Series("Total", RisingPoints(ModeFirstYear, last))>>) :
     last \in {DefaultMaxYear - 1, DefaultMaxYear}}

GroupByResponse ==
  Response(<<Series("Total", <<[x |-> "nus", y |-> Num(125)], [x |-> "ntu", y |-> Num(160)],
                               [x |-> "smu", y |-> Num(100)]>>)>>)

AllModes == {"trend", "comparison", "growth", "gender"}

\* what the backend answers to the refetches of a sex filter value; the
\* answers for "MF" are the data of the initial load
SexValues == {"MF", "F", "M"}

TimeSeriesFor(s) ==
  IF s = "MF" THEN TimeSeries(DefaultMaxYear) ELSE TimeSeries(DefaultMaxYear - 1)

GroupByFor(s) ==
  IF s = "MF" THEN GroupByResponse
  ELSE Response(<<Series("Total", <<[x |-> "nus", y |-> Num(60)], [x |-> "ntu", y |-> Num(80)]>>)>>)

ComparativeFor(s) ==
  IF s = "MF" THEN Response(<<Series("nus", RefFull), Series("ntu", RefGap)>>)
  ELSE Response(<<Series("nus", RefGap), Series("ntu", RefFull)>>)

\* the answer to getComparative(institutions, s): the series of the
\* institutions asked for
ComparativeOf(institutions, s) ==
  Response(SelectSeq(ComparativeFor(s).series, LAMBDA x : Includes(institutions, x.name)))

\* PromiseSettledResult
Fulfilled(v) == [status |-> "fulfilled", value |-> v]
Rejected == [status |-> "rejected"]

DefaultInstitutions == <<"nus", "ntu", "smu", "sit">>
ToggleKeys == {"nus"}
Modes == {"trend", "gender"}

HoltIdle ==
  /\ values = <<>> /\ periods = 1 /\ alpha = Undefined /\ beta = Undefined
  /\ forecasts = <<>> /\ pc = "idle"

Idle == [st |-> "idle"]

RefetchIdle ==
  /\ groupByResult = Null /\ sex = "MF" /\ isRefreshing = FALSE /\ sexCall = Idle

\* const DEV_MODE = true
DEV_MODE == TRUE

None == "none"

AppIdle ==
  /\ devMode = DEV_MODE /\ authStatus = "configuring"
  /\ path = "/" /\ fromPath = None
  /\ requests = {} /\ job = None

\* pollJobResult: maxAttempts = 30, initialDelay = 500, Math.min(delay * 1.5, 5000)
DefaultMaxAttempts == 30
DefaultInitialDelay == 500
MaxDelay == 5000

\* a delay in milliseconds: the number n / 2^k, exactly as the double holds it
Ms(n) == [n |-> n, k |-> 0]

MsLeq(x, y) == x.n * 2^(y.k) <= y.n * 2^(x.k)

\* delay * 1.5
TimesOneAndHalf(x) ==
  IF x.k = 0 /\ x.n % 2 = 0 THEN [n |-> 3 * (x.n \div 2), k |-> 0]
  ELSE [n |-> 3 * x.n, k |-> x.k + 1]

PollIdle ==
  /\ maxAttempts = DefaultMaxAttempts /\ initialDelay = Ms(DefaultInitialDelay)
  /\ attempts = 0 /\ delay = Ms(DefaultInitialDelay)
  /\ pollPc = "idle" /\ statusRequests = 0 /\ lastStatus = None /\ waits = <<>>

\* no effect has run yet
Unset == "unset"

\* DashboardPage on its first render, before its effects run
PageIdle ==
  /\ mounted = TRUE /\ selectedJobId = None /\ hookDeps = Unset
  /\ selectedJob = Null /\ jobError = Null /\ isPolling = FALSE
  /\ getJobRequests = {} /\ timers = {} /\ lastResponse = None
  /\ resultDue = TRUE
  /\ result = Null /\ downloadUrl = Null /\ resultError = Null /\ downloadError = Null
  /\ resultRequests = {}

RaceIdle == comparativeDeps = <<DefaultInstitutions, "MF">> /\ comparativeRequests = {}

AsyncIdle == PollIdle /\ PageIdle /\ RaceIdle

ExtIdle == RefetchIdle /\ AppIdle /\ AsyncIdle

ChartIdle ==
  /\ timeSeriesResult = Null /\ comparativeResult = Null /\ genderComparisonResult = Null
  /\ selectedInstitutions = DefaultInstitutions
  /\ yearFrom = DefaultYearFrom /\ yearTo = DefaultMaxYear
  /\ showForecast = TRUE /\ analysisMode = "trend"
  /\ effectDeps = <<DefaultMaxYear, DefaultMaxYear>>

(***************************************************************************)
(* Specification of direct calls of holtForecast                           *)
(***************************************************************************)
HoltInit ==
  /\ \/ /\ values \in SeqsUpTo(HoltEntries, MaxLen) \cup GoldenSeries
        /\ periods \in 1..MaxPeriods
        /\ \E ab \in Smoothing : alpha = ab[1] /\ beta = ab[2]
     \/ \E c \in GoldenCalls :
          values = c.values /\ periods = c.periods /\ alpha = c.alpha /\ beta = c.beta
  /\ forecasts = <<>>
  /\ pc = "call"
  /\ ChartIdle
  /\ ExtIdle

HoltCall ==
  /\ pc = "call"
  /\ forecasts' = holtForecast(values, periods, alpha, beta)
  /\ pc' = "done"
  /\ UNCHANGED <<values, periods, alpha, beta, chartVars, effectDeps, extVars>>

HoltNext == HoltCall

SpecHolt == HoltInit /\ [][HoltNext]_vars

(***************************************************************************)
(* Specification of direct calls of holtForecast as the JavaScript engine  *)
(* evaluates them: forecasts holds the doubles the call returns.  The      *)
(* series have a constant step, or a constant step up to the last value.   *)
(***************************************************************************)
\* a, a + d, a + 2d, ... (n values)
LinearSeries(a, d, n) == [i \in 1..n |-> Num(a + (i - 1) * d)]

MaxLinearLen == MaxLen + 3

Smoothing64 ==
  Smoothing \cup {<<Dec(9, 1), Dec(2, 1)>>, <<Dec(1, 1), Dec(3, 1)>>, <<Dec(25, 2), Num(1)>>}

HoltInit64 ==
  /\ \E a \in 0..MaxVal, d \in (-MaxVal)..MaxVal, n \in 2..MaxLinearLen, bump \in {0, 1} :
       values = [LinearSeries(a, d, n) EXCEPT ![n] = DecAdd(@, Num(bump))]
  /\ periods \in 1..MaxPeriods
  /\ \E ab \in Smoothing64 : alpha = ab[1] /\ beta = ab[2]
  /\ forecasts = <<>>
  /\ pc = "call"
  /\ ChartIdle
  /\ ExtIdle

HoltCall64 ==
  /\ pc = "call"
  /\ forecasts' = holtForecast64(values, periods, alpha, beta)
  /\ pc' = "done"
  /\ UNCHANGED <<values, periods, alpha, beta, chartVars, effectDeps, extVars>>

HoltNext64 == HoltCall64

SpecHolt64 == HoltInit64 /\ [][HoltNext64]_vars

(***************************************************************************)
(* Specification of the IntakeAnalytics page once its data has loaded:     *)
(* the filter handlers and the forecast auto-disable effect; the chart     *)
(* data are the useMemo values of the current state.                       *)
(***************************************************************************)
ChartInit ==
  /\ HoltIdle
  /\ timeSeriesResult \in TimeSeriesResponses
  /\ \/ comparativeResult \in ComparativeResponses
        /\ genderComparisonResult = Response(<<Series("M", RefFull), Series("F", RefGap)>>)
     \/ comparativeResult = Response(<<Series("nus", RefFull), Series("ntu", RefGap)>>)
        /\ genderComparisonResult \in GenderResponses
  /\ selectedInstitutions = DefaultInstitutions
  /\ yearFrom = DefaultYearFrom
  /\ yearTo = maxYear              \* fetchInitialData: setYearTo(latestYear)
  /\ showForecast = TRUE
  /\ analysisMode = "trend"
  /\ effectDeps = <<yearTo, maxYear>>
  /\ ExtIdle

handleToggleInstitution(institution) ==
  /\ EffectsFlushed
  /\ selectedInstitutions' =
       IF Includes(selectedInstitutions, institution)
       THEN SelectSeq(selectedInstitutions, LAMBDA i : i # institution)
       ELSE Append(selectedInstitutions, institution)
  /\ UNCHANGED <<holtVars, dataVars, yearFrom, yearTo, showForecast, analysisMode,
                 effectDeps, extVars>>

\* the From select offers generateYearRange(minYear, yearTo)
SetYearFrom(year) ==
  /\ EffectsFlushed
  /\ year \in minYear..yearTo
  /\ year # yearFrom
  /\ yearFrom' = year
  /\ UNCHANGED <<holtVars, dataVars, selectedInstitutions, yearTo, showForecast, analysisMode,
                 effectDeps, extVars>>

\* the To select offers generateYearRange(yearFrom, maxYear)
SetYearTo(year) ==
  /\ EffectsFlushed
  /\ year \in yearFrom..maxYear
  /\ year # yearTo
  /\ yearTo' = year
  /\ UNCHANGED <<holtVars, dataVars, selectedInstitutions, yearFrom, showForecast, analysisMode,
                 effectDeps, extVars>>

\* the forecast checkbox, rendered only when needsForecastOption
SetShowForecast(checked) ==
  /\ EffectsFlushed
  /\ needsForecastOption
  /\ checked # showForecast
  /\ showForecast' = checked
  /\ UNCHANGED <<holtVars, dataVars, selectedInstitutions, yearFrom, yearTo, analysisMode,
                 effectDeps, extVars>>

SetAnalysisMode(mode) ==
  /\ EffectsFlushed
  /\ mode # analysisMode
  /\ analysisMode' = mode
  /\ UNCHANGED <<holtVars, dataVars, selectedInstitutions, yearFrom, yearTo, showForecast,
                 effectDeps, extVars>>

ForecastAutoDisable_noReset ==
  /\ ~EffectsFlushed
  /\ effectDeps' = <<yearTo, maxYear>>
  /\ UNCHANGED <<holtVars, dataVars, selectedInstitutions, yearFrom, yearTo, analysisMode,
                 showForecast, extVars>>

\* useEffect(() => { if (yearTo !== maxYear) setShowForecast(false) }, [yearTo, maxYear]):
\* runs after a render in which yearTo or maxYear changed
ForecastAutoDisable ==
  /\ ~EffectsFlushed
  /\ showForecast' = IF yearTo # maxYear THEN FALSE ELSE showForecast
  /\ effectDeps' = <<yearTo, maxYear>>
  /\ UNCHANGED <<holtVars, dataVars, selectedInstitutions, yearFrom, yearTo, analysisMode,
                 extVars>>

handleReset ==
  /\ EffectsFlushed
  /\ selectedInstitutions' = DefaultInstitutions
  /\ yearFrom' = DefaultYearFrom
  /\ yearTo' = maxYear
  /\ sex' = "MF"
  /\ analysisMode' = "trend"
  /\ showForecast' = TRUE
  /\ UNCHANGED <<holtVars, dataVars, effectDeps, groupByResult, isRefreshing, sexCall, appVars, asyncVars>>

ChartNext ==
  \/ \E institution \in ToggleKeys : handleToggleInstitution(institution)
  \/ \E year \in DataYears : SetYearFrom(year)
  \/ \E year \in DataYears : SetYearTo(year)
  \/ \E checked \in BOOLEAN : SetShowForecast(checked)
  \/ \E mode \in Modes : SetAnalysisMode(mode)
  \/ ForecastAutoDisable
  \/ handleReset

SpecCharts == ChartInit /\ [][ChartNext]_vars

(***************************************************************************)
(* Specification of the IntakeAnalytics page over every analysis mode that *)
(* has a raw-data table fed by the modelled chart data, with series that   *)
(* span several years.                                                     *)
(***************************************************************************)
ModeInit ==
  /\ HoltIdle
  /\ timeSeriesResult \in ModeTimeSeriesResponses
  /\ comparativeResult \in ModeComparativeResponses
  /\ genderComparisonResult \in ModeGenderResponses
  /\ selectedInstitutions = DefaultInstitutions
  /\ yearFrom = DefaultYearFrom
  /\ yearTo = maxYear              \* fetchInitialData: setYearTo(latestYear)
  /\ showForecast = TRUE
  /\ analysisMode = "trend"
  /\ effectDeps = <<yearTo, maxYear>>
  /\ groupByResult = GroupByResponse
  /\ sex = "MF" /\ isRefreshing = FALSE /\ sexCall = Idle
  /\ AppIdle
  /\ AsyncIdle

ModeNext ==
  \/ \E institution \in ToggleKeys : handleToggleInstitution(institution)
  \/ \E year \in ModeYears : SetYearFrom(year)
  \/ \E year \in ModeYears : SetYearTo(year)
  \/ \E checked \in BOOLEAN : SetShowForecast(checked)
  \/ \E mode \in AllModes : SetAnalysisMode(mode)
  \/ ForecastAutoDisable
  \/ handleReset

SpecModes == ModeInit /\ [][ModeNext]_vars

(***************************************************************************)
(* Specification of the sex filter: handleSexChange refetches the three    *)
(* sex-dependent sources; the new time series can move maxYear.            *)
(***************************************************************************)
RefetchInit ==
  /\ HoltIdle
  /\ timeSeriesResult = TimeSeriesFor("MF")
  /\ groupByResult = GroupByFor("MF")
  /\ genderComparisonResult = Null
  \* the comparative data are fetched only for 2 institutions or more
  /\ \/ selectedInstitutions = DefaultInstitutions /\ comparativeResult = ComparativeFor("MF")
     \/ selectedInstitutions = <<"nus">> /\ comparativeResult = Null
  /\ yearFrom = DefaultYearFrom
  /\ yearTo = maxYear
  /\ showForecast = TRUE
  /\ analysisMode = "trend"
  /\ effectDeps = <<yearTo, maxYear>>
  /\ sex = "MF" /\ isRefreshing = FALSE /\ sexCall = Idle
  /\ AppIdle
  /\ AsyncIdle

\* handleSexChange up to its await; the filter buttons are disabled while
\* isRefreshing
handleSexChange(newSex) ==
  /\ EffectsFlushed
  /\ ~isRefreshing
  /\ sex' = newSex
  /\ isRefreshing' = TRUE
  /\ sexCall' = [st |-> "pending", newSex |-> newSex,
                 institutions |-> selectedInstitutions,
                 withComparative |-> Len(selectedInstitutions) >= 2]
  /\ UNCHANGED <<holtVars, chartVars, effectDeps, groupByResult, appVars, asyncVars>>

\* Promise.allSettled resolves: every request has succeeded or failed
RequestsSettle ==
  /\ sexCall.st = "pending"
  /\ \E ts \in {Rejected, Fulfilled(TimeSeriesFor(sexCall.newSex))},
        gb \in {Rejected, Fulfilled(GroupByFor(sexCall.newSex))},
        cmp \in IF sexCall.withComparative
                THEN {Rejected,
                      Fulfilled(ComparativeOf(sexCall.institutions, sexCall.newSex))}
                ELSE {Fulfilled(Null)} :
       sexCall' = [st |-> "settled", withComparative |-> sexCall.withComparative,
                   timeSeries |-> ts, groupBy |-> gb, comparative |-> cmp]
  /\ UNCHANGED <<holtVars, chartVars, effectDeps, groupByResult, sex, isRefreshing, appVars, asyncVars>>

\* settled.status === 'fulfilled' && settled.value
Usable(settled) == settled.status = "fulfilled" /\ settled.value # Null

handleSexChangeResume_allOrNothing ==
  /\ sexCall.st = "settled"
  /\ EffectsFlushed
  /\ LET all == /\ Usable(sexCall.timeSeries) /\ Usable(sexCall.groupBy)
                /\ sexCall.comparative.status = "fulfilled"
     IN  /\ timeSeriesResult' = IF all THEN sexCall.timeSeries.value ELSE timeSeriesResult
         /\ groupByResult' = IF all THEN sexCall.groupBy.value ELSE groupByResult
         /\ comparativeResult' = IF all /\ Usable(sexCall.comparative)
                                 THEN sexCall.comparative.value ELSE comparativeResult
  /\ isRefreshing' = FALSE
  /\ sexCall' = Idle
  /\ UNCHANGED <<holtVars, genderComparisonResult, selectedInstitutions, yearFrom, yearTo,
                 showForecast, analysisMode, effectDeps, sex, appVars, asyncVars>>

\* handleSexChange after its await
handleSexChangeResume ==
  /\ sexCall.st = "settled"
  /\ EffectsFlushed
  /\ timeSeriesResult' = IF Usable(sexCall.timeSeries)
                         THEN sexCall.timeSeries.value ELSE timeSeriesResult
  /\ groupByResult' = IF Usable(sexCall.groupBy)
                      THEN sexCall.groupBy.value ELSE groupByResult
  /\ comparativeResult' = IF Usable(sexCall.comparative)
                          THEN sexCall.comparative.value ELSE comparativeResult
  /\ isRefreshing' = FALSE
  /\ sexCall' = Idle
  /\ UNCHANGED <<holtVars, genderComparisonResult, selectedInstitutions, yearFrom, yearTo,
                 showForecast, analysisMode, effectDeps, sex, appVars, asyncVars>>

RefetchNext ==
  \/ \E newSex \in SexValues : handleSexChange(newSex)
  \/ RequestsSettle
  \/ handleSexChangeResume
  \/ \E institution \in ToggleKeys : handleToggleInstitution(institution)
  \/ \E year \in DataYears : SetYearTo(year)
  \/ \E checked \in BOOLEAN : SetShowForecast(checked)
  \/ ForecastAutoDisable
  \/ handleReset

SpecRefetch == RefetchInit /\ [][RefetchNext]_vars

(***************************************************************************)
(* Specification of the application shell: the routes of App, the          *)
(* ProtectedRoute guard, and the HTTP requests the pages send through the  *)
(* two axios instances.                                                    *)
(***************************************************************************)
Paths == {"/", "/analytics/intake", "/login", "/settings"}

AuthStatuses == {"configuring", "authenticated", "unauthenticated"}

\* what ProtectedRoute renders around its children
ProtectedRoute(children) ==
  IF authStatus = "configuring" THEN "Loading"
  ELSE IF authStatus # "authenticated" THEN "Navigate /login"
  ELSE children

\* the element App renders at the current location
Rendered ==
  IF devMode
  THEN CASE path = "/" -> "Dashboard"
         [] path = "/analytics/intake" -> "IntakeAnalytics"
         [] OTHER -> "Dashboard"
  ELSE IF path = "/login" THEN "Login"
  ELSE ProtectedRoute(CASE path = "/" -> "Dashboard"
                        [] path = "/analytics/intake" -> "IntakeAnalytics"
                        [] OTHER -> "NotFound")

\* session.tokens?.idToken?.toString(): a signed-in session holds an id token
SessionToken == IF authStatus = "authenticated" THEN "id-token" ELSE None

Bearer(token) == "Bearer " \o token

\* the request interceptor of createApiClient
WithJwt(token) == IF token # None THEN Bearer(token) ELSE None

\* the axios instance of intakeApi: axios.create without an interceptor
WithoutInterceptor(token) == None

Request(api, op, authorization) ==
  [api |-> api, op |-> op, authorization |-> authorization, sessionToken |-> SessionToken]

AppInit ==
  /\ HoltIdle /\ ChartIdle /\ RefetchIdle /\ AsyncIdle
  /\ devMode \in BOOLEAN
  /\ authStatus = "configuring"
  /\ path \in Paths
  /\ fromPath = None
  /\ requests = {}
  /\ job = None

\* Amplify settles the status; the user signs in or out
AuthChange(status) ==
  /\ status # authStatus
  /\ status # "configuring"
  /\ authStatus' = status
  /\ UNCHANGED <<holtVars, chartVars, effectDeps, refetchVars, asyncVars, devMode, path, fromPath,
                 requests, job>>

\* the user follows a link or enters a URL
GoTo(p) ==
  /\ p # path
  /\ path' = p
  /\ fromPath' = None
  /\ UNCHANGED <<holtVars, chartVars, effectDeps, refetchVars, asyncVars, devMode, authStatus,
                 requests, job>>

\* <Navigate to="/login" state={{ from: location }} replace />
RedirectToLogin ==
  /\ Rendered = "Navigate /login"
  /\ fromPath' = path
  /\ path' = "/login"
  /\ UNCHANGED <<holtVars, chartVars, effectDeps, refetchVars, asyncVars, devMode, authStatus,
                 requests, job>>

\* AuthenticatorWrapper: once signed in, <Navigate to={from} replace />
RedirectFromLogin ==
  /\ Rendered = "Login"
  /\ authStatus = "authenticated"
  /\ path' = IF fromPath # None THEN fromPath ELSE "/"
  /\ fromPath' = None
  /\ UNCHANGED <<holtVars, chartVars, effectDeps, refetchVars, asyncVars, devMode, authStatus,
                 requests, job>>

\* Dashboard: fetchJobs -> jobsApi.getJobs() through the client of createApiClient
DashboardFetchJobs ==
  /\ Rendered = "Dashboard"
  /\ requests' = requests \cup {Request("jobsApi", "GET /jobs", WithJwt(SessionToken))}
  /\ UNCHANGED <<holtVars, chartVars, effectDeps, refetchVars, asyncVars, devMode, authStatus, path,
                 fromPath, job>>

\* IntakeAnalytics: intakeApi.get...() -> submitAndWaitForResult: the POST
IntakeSubmit ==
  /\ Rendered = "IntakeAnalytics"
  /\ job = None
  /\ requests' = requests \cup
       {Request("intakeApi", "POST /api/v1/jobs", WithoutInterceptor(SessionToken))}
  /\ job' = "polling"
  /\ UNCHANGED <<holtVars, chartVars, effectDeps, refetchVars, asyncVars, devMode, authStatus, path,
                 fromPath>>

\* pollJobResult: one GET of the job status
IntakePoll ==
  /\ job = "polling"
  /\ requests' = requests \cup
       {Request("intakeApi", "GET /api/v1/jobs/id", WithoutInterceptor(SessionToken))}
  /\ job' \in {"polling", "completed", None}
  /\ UNCHANGED <<holtVars, chartVars, effectDeps, refetchVars, asyncVars, devMode, authStatus, path,
                 fromPath>>

\* pollJobResult: the GET of the result of a completed job
IntakeResult ==
  /\ job = "completed"
  /\ requests' = requests \cup
       {Request("intakeApi", "GET /api/v1/jobs/id/result", WithoutInterceptor(SessionToken))}
  /\ job' = None
  /\ UNCHANGED <<holtVars, chartVars, effectDeps, refetchVars, asyncVars, devMode, authStatus, path,
                 fromPath>>

AppNext ==
  \/ \E status \in AuthStatuses : AuthChange(status)
  \/ \E p \in Paths : GoTo(p)
  \/ RedirectToLogin
  \/ RedirectFromLogin
  \/ DashboardFetchJobs
  \/ IntakeSubmit
  \/ IntakePoll
  \/ IntakeResult

SpecApp == AppInit /\ [][AppNext]_vars

(***************************************************************************)
(* Specification of one call of pollJobResult.  The call is cut at its     *)
(* awaits: pollPc is "loop" at the while test, "status" while the status   *)
(* request is in flight, "wait" while the timer runs, "result" while the   *)
(* result request is in flight, and then "returned", "failed", "timedOut"  *)
(* or "rejected" (an HTTP request rejected and its error left the call).   *)
(***************************************************************************)
JobStatuses == {"QUEUED", "RUNNING", "COMPLETED", "SUCCEEDED", "FAILED"}

\* the maxAttempts a call is made with: the default and two short runs
AttemptLimits == {1, 2, DefaultMaxAttempts}

PollOutcomes == {"returned", "failed", "timedOut", "rejected"}

PollInit ==
  /\ HoltIdle /\ ChartIdle /\ RefetchIdle /\ AppIdle /\ PageIdle /\ RaceIdle
  /\ maxAttempts \in AttemptLimits
  /\ initialDelay = Ms(DefaultInitialDelay)
  /\ attempts = 0
  /\ delay = initialDelay
  /\ pollPc = "loop"
  /\ statusRequests = 0
  /\ lastStatus = None
  /\ waits = <<>>

PollLoop_offByOne ==
  /\ pollPc = "loop"
  /\ IF attempts <= maxAttempts
     THEN pollPc' = "status" /\ statusRequests' = statusRequests + 1
     ELSE pollPc' = "timedOut" /\ UNCHANGED statusRequests
  /\ UNCHANGED <<holtVars, chartVars, effectDeps, refetchVars, appVars, raceVars, pageVars, maxAttempts,
                 initialDelay, attempts, delay, lastStatus, waits>>

\* while (attempts < maxAttempts): the next status request, or the throw
\* after the loop
PollLoop ==
  /\ pollPc = "loop"
  /\ IF attempts < maxAttempts
     THEN pollPc' = "status" /\ statusRequests' = statusRequests + 1
     ELSE pollPc' = "timedOut" /\ UNCHANGED statusRequests
  /\ UNCHANGED <<holtVars, chartVars, effectDeps, refetchVars, appVars, raceVars, pageVars, maxAttempts,
                 initialDelay, attempts, delay, lastStatus, waits>>

\* the status request resolves: the two ifs, then setTimeout(resolve, delay)
PollStatusResponse(status) ==
  /\ pollPc = "status"
  /\ lastStatus' = status
  /\ IF status = "COMPLETED" \/ status = "SUCCEEDED"
     THEN pollPc' = "result" /\ UNCHANGED waits
     ELSE IF status = "FAILED"
     THEN pollPc' = "failed" /\ UNCHANGED waits
     ELSE pollPc' = "wait" /\ waits' = Append(waits, delay)
  /\ UNCHANGED <<holtVars, chartVars, effectDeps, refetchVars, appVars, raceVars, pageVars, maxAttempts,
                 initialDelay, attempts, delay, statusRequests>>

\* a request rejects (network error, non-2xx status): the call rejects with
\* the error of axios
PollRequestRejected ==
  /\ pollPc \in {"status", "result"}
  /\ pollPc' = "rejected"
  /\ UNCHANGED <<holtVars, chartVars, effectDeps, refetchVars, appVars, raceVars, pageVars, maxAttempts,
                 initialDelay, attempts, delay, statusRequests, lastStatus, waits>>

PollBackoff_uncapped(d) == TimesOneAndHalf(d)

\* Math.min(delay * 1.5, 5000)
PollBackoff(d) ==
  IF MsLeq(TimesOneAndHalf(d), Ms(MaxDelay)) THEN TimesOneAndHalf(d) ELSE Ms(MaxDelay)

\* the timer fires: delay = Math.min(delay * 1.5, 5000); attempts++
PollTimerFires ==
  /\ pollPc = "wait"
  /\ delay' = PollBackoff(delay)
  /\ attempts' = attempts + 1
  /\ pollPc' = "loop"
  /\ UNCHANGED <<holtVars, chartVars, effectDeps, refetchVars, appVars, raceVars, pageVars, maxAttempts,
                 initialDelay, statusRequests, lastStatus, waits>>

\* the result request resolves: return resultResponse.data
PollResultResponse ==
  /\ pollPc = "result"
  /\ pollPc' = "returned"
  /\ UNCHANGED <<holtVars, chartVars, effectDeps, refetchVars, appVars, raceVars, pageVars, maxAttempts,
                 initialDelay, attempts, delay, statusRequests, lastStatus, waits>>

PollNext ==
  \/ PollLoop
  \/ \E status \in JobStatuses : PollStatusResponse(status)
  \/ PollRequestRejected
  \/ PollTimerFires
  \/ PollResultResponse

SpecPoll == PollInit /\ [][PollNext]_vars

\* every pending request gets its response and every timer fires
SpecPollFair == SpecPoll /\ WF_vars(PollNext)

(***************************************************************************)
(* Specification of DashboardPage (ccp-school) with useJobPoll: the        *)
(* selection of a job, the polling effect of the hook and the result       *)
(* effect of the page.  An effect runs in a step of its own after the      *)
(* render that changed its dependencies; responses and timers may come     *)
(* before it.  A closure flag (isMounted, active) is kept on the requests  *)
(* and timers that its effect has started.                                 *)
(***************************************************************************)
JobIds == {"job-a", "job-b"}

\* type JobStatus
HookStatuses == {"QUEUED", "RUNNING", "SUCCEEDED", "FAILED"}

TERMINAL_STATUSES == {"SUCCEEDED", "FAILED"}

\* window.setTimeout(poll, 1500)
PollInterval == 1500

JobObject(jobId, status) == [jobId |-> jobId, status |-> status]

HookFlushed == hookDeps = selectedJobId

PageInit ==
  /\ HoltIdle /\ ChartIdle /\ RefetchIdle /\ AppIdle /\ PollIdle /\ RaceIdle
  /\ PageIdle

\* the component renders useJobPoll with another jobId
SetJobId(jobId) ==
  /\ mounted
  /\ HookFlushed
  /\ jobId # selectedJobId
  /\ selectedJobId' = jobId
  /\ UNCHANGED <<holtVars, chartVars, effectDeps, refetchVars, appVars, raceVars, pollVars,
                 mounted, hookDeps, selectedJob, jobError, isPolling, getJobRequests, timers,
                 lastResponse, resultVars>>

\* setSelectedJobId(job.jobId) of a row of the job list, or
\* setSelectedJobId(payload.jobId) of runAnalysis
SelectJob(jobId) == ~resultDue /\ SetJobId(jobId)

\* the cleanup of the effect of useJobPoll: isMounted = false, and
\* clearTimeout(timerRef.current)
Unmounted(S) == {[x EXCEPT !.isMounted = FALSE] : x \in S}

CleanupRequests == IF hookDeps \in JobIds THEN Unmounted(getJobRequests) ELSE getJobRequests

CleanupTimers ==
  IF hookDeps \in JobIds THEN Unmounted({t \in timers : ~t.current}) ELSE timers

\* the effect of useJobPoll for [jobId]: the cleanup of the previous run,
\* then the reset for a null jobId or the first poll()
useJobPollEffect ==
  /\ mounted
  /\ ~HookFlushed
  /\ hookDeps' = selectedJobId
  /\ lastResponse' = None
  /\ timers' = CleanupTimers
  /\ IF selectedJobId = None
     THEN /\ selectedJob' = Null
          /\ jobError' = Null
          /\ isPolling' = FALSE
          /\ getJobRequests' = CleanupRequests
          /\ resultDue' = (resultDue \/ selectedJob # Null)
     ELSE /\ getJobRequests' =
               CleanupRequests \cup {[jobId |-> selectedJobId, isMounted |-> TRUE]}
          /\ UNCHANGED <<selectedJob, jobError, isPolling, resultDue>>
  /\ UNCHANGED <<holtVars, chartVars, effectDeps, refetchVars, appVars, raceVars, pollVars,
                 mounted, selectedJobId, result, downloadUrl, resultError, downloadError,
                 resultRequests>>

NewTimer(jobId) ==
  [jobId |-> jobId, isMounted |-> TRUE, current |-> TRUE, delay |-> PollInterval]

\* timerRef.current = window.setTimeout(poll, 1500)
SetTimer(jobId) == {[t EXCEPT !.current = FALSE] : t \in timers} \cup {NewTimer(jobId)}

GetJobSucceeds_unguarded(r, status) ==
  /\ r \in getJobRequests
  /\ getJobRequests' = getJobRequests \ {r}
  /\ IF mounted
     THEN /\ selectedJob' = JobObject(r.jobId, status)
          /\ isPolling' = (status \notin TERMINAL_STATUSES)
          /\ timers' = IF status \notin TERMINAL_STATUSES THEN SetTimer(r.jobId) ELSE timers
          /\ lastResponse' = status
          /\ resultDue' = TRUE
     ELSE UNCHANGED <<selectedJob, isPolling, timers, lastResponse, resultDue>>
  /\ UNCHANGED <<holtVars, chartVars, effectDeps, refetchVars, appVars, raceVars, pollVars,
                 mounted, selectedJobId, hookDeps, jobError, result, downloadUrl, resultError,
                 downloadError, resultRequests>>

GetJobSucceeds_keepsPolling(r, status) ==
  /\ r \in getJobRequests
  /\ getJobRequests' = getJobRequests \ {r}
  /\ IF r.isMounted
     THEN /\ selectedJob' = JobObject(r.jobId, status)
          /\ isPolling' = (status \notin TERMINAL_STATUSES)
          /\ timers' = SetTimer(r.jobId)
          /\ lastResponse' = status
          /\ resultDue' = TRUE
     ELSE UNCHANGED <<selectedJob, isPolling, timers, lastResponse, resultDue>>
  /\ UNCHANGED <<holtVars, chartVars, effectDeps, refetchVars, appVars, raceVars, pollVars,
                 mounted, selectedJobId, hookDeps, jobError, result, downloadUrl, resultError,
                 downloadError, resultRequests>>

\* poll() after its await, getJob resolved with a job of the given status
GetJobSucceeds(r, status) ==
  /\ r \in getJobRequests
  /\ getJobRequests' = getJobRequests \ {r}
  /\ IF r.isMounted
     THEN /\ selectedJob' = JobObject(r.jobId, status)
          /\ isPolling' = (status \notin TERMINAL_STATUSES)
          /\ timers' = IF status \notin TERMINAL_STATUSES THEN SetTimer(r.jobId) ELSE timers
          /\ lastResponse' = status
          /\ resultDue' = TRUE
     ELSE UNCHANGED <<selectedJob, isPolling, timers, lastResponse, resultDue>>
  /\ UNCHANGED <<holtVars, chartVars, effectDeps, refetchVars, appVars, raceVars, pollVars,
                 mounted, selectedJobId, hookDeps, jobError, result, downloadUrl, resultError,
                 downloadError, resultRequests>>

\* poll() after its await, getJob rejected: the catch block
GetJobFails(r) ==
  /\ r \in getJobRequests
  /\ getJobRequests' = getJobRequests \ {r}
  /\ IF r.isMounted
     THEN /\ jobError' = [jobId |-> r.jobId]
          /\ isPolling' = FALSE
          /\ lastResponse' = "error"
     ELSE UNCHANGED <<jobError, isPolling, lastResponse>>
  /\ UNCHANGED <<holtVars, chartVars, effectDeps, refetchVars, appVars, raceVars, pollVars,
                 mounted, selectedJobId, hookDeps, selectedJob, timers, resultVars>>

\* a timer fires: poll() up to its await
TimerFires(t) ==
  /\ t \in timers
  /\ timers' = timers \ {t}
  /\ getJobRequests' = getJobRequests \cup {[jobId |-> t.jobId, isMounted |-> t.isMounted]}
  /\ UNCHANGED <<holtVars, chartVars, effectDeps, refetchVars, appVars, raceVars, pollVars,
                 mounted, selectedJobId, hookDeps, selectedJob, jobError, isPolling,
                 lastResponse, resultVars>>

\* the cleanup of the result effect: active = false
Inactive(S) == {[x EXCEPT !.active = FALSE] : x \in S}

ResultEffect_noReset ==
  /\ mounted
  /\ HookFlushed /\ resultDue
  /\ resultDue' = FALSE
  /\ IF selectedJob = Null \/ selectedJob.status # "SUCCEEDED"
     THEN /\ resultRequests' = Inactive(resultRequests)
          /\ UNCHANGED <<result, downloadUrl, resultError, downloadError>>
     ELSE /\ resultError' = Null
          /\ downloadError' = Null
          /\ resultRequests' = Inactive(resultRequests) \cup
               {[kind |-> k, jobId |-> selectedJob.jobId, active |-> TRUE] :
                  k \in {"result", "download"}}
          /\ UNCHANGED <<result, downloadUrl>>
  /\ UNCHANGED <<holtVars, chartVars, effectDeps, refetchVars, appVars, raceVars, pollVars, hookVars>>

\* the result effect for [selectedJob]: the cleanup of the previous run,
\* then the reset or loadResult() and loadDownload() up to their awaits
ResultEffect ==
  /\ mounted
  /\ HookFlushed /\ resultDue
  /\ resultDue' = FALSE
  /\ IF selectedJob = Null \/ selectedJob.status # "SUCCEEDED"
     THEN /\ result' = Null
          /\ downloadUrl' = Null
          /\ resultRequests' = Inactive(resultRequests)
          /\ UNCHANGED <<resultError, downloadError>>
     ELSE /\ resultError' = Null
          /\ downloadError' = Null
          /\ resultRequests' = Inactive(resultRequests) \cup
               {[kind |-> k, jobId |-> selectedJob.jobId, active |-> TRUE] :
                  k \in {"result", "download"}}
          /\ UNCHANGED <<result, downloadUrl>>
  /\ UNCHANGED <<holtVars, chartVars, effectDeps, refetchVars, appVars, raceVars, pollVars, hookVars>>

\* loadResult() or loadDownload() after its await
ResultResponds(r, ok) ==
  /\ r \in resultRequests
  /\ resultRequests' = resultRequests \ {r}
  /\ result' = IF r.active /\ ok /\ r.kind = "result" THEN [jobId |-> r.jobId] ELSE result
  /\ downloadUrl' =
       IF r.active /\ ok /\ r.kind = "download" THEN [jobId |-> r.jobId] ELSE downloadUrl
  /\ resultError' =
       IF r.active /\ ~ok /\ r.kind = "result"
       THEN [message |-> "Failed to load result."] ELSE resultError
  /\ downloadError' =
       IF r.active /\ ~ok /\ r.kind = "download"
       THEN [message |-> "Failed to load download URL."] ELSE downloadError
  /\ UNCHANGED <<holtVars, chartVars, effectDeps, refetchVars, appVars, raceVars, pollVars, hookVars,
                 resultDue>>

\* the page leaves the screen: the cleanups of both effects run
Unmount ==
  /\ mounted
  /\ mounted' = FALSE
  /\ getJobRequests' = CleanupRequests
  /\ timers' = CleanupTimers
  /\ resultRequests' = Inactive(resultRequests)
  /\ UNCHANGED <<holtVars, chartVars, effectDeps, refetchVars, appVars, raceVars, pollVars,
                 selectedJobId, hookDeps, selectedJob, jobError, isPolling, lastResponse,
                 resultDue, result, downloadUrl, resultError, downloadError>>

HookNext ==
  \/ \E jobId \in JobIds \cup {None} : SetJobId(jobId)
  \/ useJobPollEffect
  \/ \E r \in getJobRequests, status \in HookStatuses : GetJobSucceeds(r, status)
  \/ \E r \in getJobRequests : GetJobFails(r)
  \/ \E t \in timers : TimerFires(t)
  \/ Unmount

\* useJobPoll in a component that renders it with any jobId and can unmount
SpecHook == PageInit /\ [][HookNext]_vars

PageNext ==
  \/ \E jobId \in JobIds : SelectJob(jobId)
  \/ useJobPollEffect
  \/ \E r \in getJobRequests, status \in HookStatuses : GetJobSucceeds(r, status)
  \/ \E t \in timers : TimerFires(t)
  \/ ResultEffect
  \/ \E r \in resultRequests, ok \in BOOLEAN : ResultResponds(r, ok)

\* DashboardPage while it stays mounted and getJob succeeds
SpecPage == PageInit /\ [][PageNext]_vars

(***************************************************************************)
(* Specification of the comparative data of IntakeAnalytics: the fetch     *)
(* effect for [selectedInstitutions, sex, isLoading] and handleSexChange   *)
(* both call getComparative; the responses arrive in any order.  The       *)
(* initial load is over (isLoading is false) and every comparative request *)
(* succeeds.                                                               *)
(***************************************************************************)
ComparativeFlushed == comparativeDeps = <<selectedInstitutions, sex>>

\* the comparative fetch effect: runs after a render in which
\* selectedInstitutions or sex changed
ComparativeEffect ==
  /\ ~ComparativeFlushed
  /\ Cardinality(comparativeRequests) < MaxInFlight
  /\ comparativeDeps' = <<selectedInstitutions, sex>>
  /\ comparativeRequests' =
       IF Len(selectedInstitutions) >= 2
       THEN comparativeRequests \cup {[institutions |-> selectedInstitutions, sex |-> sex]}
       ELSE comparativeRequests
  /\ UNCHANGED <<holtVars, chartVars, effectDeps, refetchVars, appVars, pollVars, pageVars>>

\* .then(setComparativeResult) or .catch(console.error)
ComparativeResponds(r, ok) ==
  /\ r \in comparativeRequests
  /\ comparativeRequests' = comparativeRequests \ {r}
  /\ comparativeResult' = IF ok THEN ComparativeOf(r.institutions, r.sex) ELSE comparativeResult
  /\ UNCHANGED <<holtVars, timeSeriesResult, genderComparisonResult, selectedInstitutions,
                 yearFrom, yearTo, showForecast, analysisMode, effectDeps, refetchVars,
                 appVars, pollVars, pageVars, comparativeDeps>>

RaceNext ==
  \/ \E newSex \in SexValues : ComparativeFlushed /\ handleSexChange(newSex)
  \/ RequestsSettle /\ sexCall'.comparative.status = "fulfilled"
  \/ handleSexChangeResume
  \/ \E institution \in ToggleKeys : ComparativeFlushed /\ handleToggleInstitution(institution)
  \/ ComparativeFlushed /\ handleReset
  \/ ForecastAutoDisable
  \/ ComparativeEffect
  \/ \E r \in comparativeRequests : ComparativeResponds(r, TRUE)

SpecRace == RefetchInit /\ [][RaceNext]_vars

(***************************************************************************)
(* Claims about holtForecast (checked under SpecHolt)                      *)
(***************************************************************************)
NumericCount(vals) == Cardinality({i \in DOMAIN vals : vals[i].t = "num"})

AllNumbers(vals) == \A i \in DOMAIN vals : vals[i].t = "num"

Last(vals) == vals[Len(vals)]

UsesDefaults == alpha \in {Undefined, Dec(3, 1)} /\ beta \in {Undefined, Dec(1, 1)}

\* C1: with at least 2 non-null numeric entries the call returns exactly
\* `periods` numbers; with 0 or 1 such entries it returns the empty sequence.
C1_LengthContract ==
  pc = "done" =>
    IF NumericCount(values) >= 2
    THEN Len(forecasts) = periods /\ AllNumbers(forecasts)
    ELSE forecasts = <<>>

C1_Witness ==
  /\ pc = "done"
  /\ NumericCount(values) = 2 /\ Len(values) = 3
  /\ periods = 2 /\ Len(forecasts) = 2

\* the subsequence of entries that are neither null nor undefined
NotNullish(v) == v # Null /\ v # Undefined
Dense(vals) == SelectSeq(vals, NotNullish)

\* C2: the result for a series with nulls interleaved equals the result for
\* the series with the nulls removed (order kept); nulls are not zeros.
C2_NullInsensitive ==
  pc = "done" => forecasts = holtForecast(Dense(values), periods, alpha, beta)

C2_Witness ==
  /\ pc = "done"
  /\ values = <<Num(10), Null, Num(12), Null, Num(14)>>
  /\ periods = 2
  /\ Len(forecasts) = 2
  /\ forecasts = holtForecast(<<Num(10), Num(12), Num(14)>>, 2, alpha, beta)

StrictlyIncreasing(vals) ==
  /\ Len(vals) >= 2
  /\ AllNumbers(vals)
  /\ \A i \in 1..(Len(vals) - 1) : DecLt(vals[i], vals[i + 1])

\* constant step between consecutive entries
IsLinear(vals) ==
  /\ Len(vals) >= 2
  /\ AllNumbers(vals)
  /\ \A i \in 1..(Len(vals) - 1) :
       DecSub(vals[i + 1], vals[i]) = DecSub(vals[2], vals[1])

\* C3 as stated: for a strictly increasing series and the default constants
\* every forecast value is >= the last historical value.
C3_Original ==
  (pc = "done" /\ UsesDefaults /\ StrictlyIncreasing(values)) =>
    \A h \in DOMAIN forecasts : DecGeq(forecasts[h], Last(values))

\* C3 amended: for a strictly increasing series with a constant step (which
\* covers every 2-value series) and the default constants, every forecast
\* value is >= the last historical value.
C3_LinearUptrend ==
  (pc = "done" /\ UsesDefaults /\ StrictlyIncreasing(values) /\ IsLinear(values)) =>
    /\ Len(forecasts) = periods
    /\ \A h \in DOMAIN forecasts : DecGeq(forecasts[h], Last(values))

C3_Witness ==
  /\ pc = "done" /\ UsesDefaults
  /\ values = <<Num(0), Num(1), Num(2)>>
  /\ periods = 2
  /\ forecasts = <<Num(3), Num(4)>>

\* C4: with alpha = beta = 1 the 1-step forecast of a linear series is the
\* next term of the progression; [10, 20, 30, 40] gives [50].
C4_LinearContinuation ==
  (pc = "done" /\ alpha = Num(1) /\ beta = Num(1)) =>
    /\ IsLinear(values) =>
         forecasts[1] = DecAdd(Last(values), DecSub(values[2], values[1]))
    /\ (values = <<Num(10), Num(20), Num(30), Num(40)>> /\ periods = 1) =>
         forecasts = <<Num(50)>>

C4_Witness ==
  /\ pc = "done" /\ alpha = Num(1) /\ beta = Num(1)
  /\ values = <<Num(10), Num(20), Num(30), Num(40)>> /\ periods = 1
  /\ forecasts = <<Num(50)>>

\* C15: for [8850, 9050, 9250, 9480, 9720, 9980] with alpha = 0.3, beta = 0.1
\* and periods = 3 the call returns exactly 3 strictly increasing values.
C15_NusIncreasing ==
  (pc = "done" /\ values = NusIntake /\ periods = 3
     /\ alpha = Dec(3, 1) /\ beta = Dec(1, 1)) =>
    /\ Len(forecasts) = 3
    /\ AllNumbers(forecasts)
    /\ DecLt(forecasts[1], forecasts[2])
    /\ DecLt(forecasts[2], forecasts[3])

C15_Witness ==
  /\ pc = "done" /\ values = NusIntake /\ periods = 3
  /\ alpha = Dec(3, 1) /\ beta = Dec(1, 1)
  /\ Len(forecasts) = 3
  /\ DecLt(Num(10116), forecasts[1]) /\ DecLt(forecasts[1], Num(10117))
  /\ DecLt(Num(10527), forecasts[3]) /\ DecLt(forecasts[3], Num(10528))

(***************************************************************************)
(* Claims about the chart data (checked under SpecCharts)                  *)
(***************************************************************************)
\* trend mode pivots the comparative series (not the total fallback)
TrendPivoted == analysisMode = "trend" /\ HasSeries(comparativeResult)

GenderPivoted == analysisMode = "gender" /\ HasSeries(genderComparisonResult)

SelectedLabels == {getInstitutionLabel(selectedInstitutions[i]) : i \in DOMAIN selectedInstitutions}

IsHistorical(row) == row["isForecast"] = FALSE

\* the point is the last one of its series for its year
LastOfYear(points, j) == \A j2 \in (j + 1)..Len(points) : points[j2].x # points[j].x

\* what the claim says a point's cell holds
ExpectedCell(y) == IF DecLeq(y, Num(0)) THEN Null ELSE y

\* some historical row of `rows` is the row of `year` and holds v under `key`
Stored(rows, year, key, v) ==
  \E i \in DOMAIN rows :
    /\ IsHistorical(rows[i])
    /\ rows[i]["year"] = year
    /\ key \in DOMAIN rows[i]
    /\ rows[i][key] = v

SexLabel(name) == IF name = "M" THEN "Male" ELSE "Female"

\* C5: a pivoted point with y <= 0 is stored as null under its series key, a
\* point with y > 0 as y; in trend mode and for Male/Female in gender mode.
C5_NonPositiveIsNull ==
  /\ TrendPivoted =>
       LET rows == trendChartData
           series == comparativeResult.series
       IN  \A s \in DOMAIN series :
             Includes(selectedInstitutions, series[s].name) =>
               \A j \in DOMAIN series[s].points :
                 LET pt == series[s].points[j]
                 IN  (pt.x >= yearFrom /\ pt.x <= yearTo /\ LastOfYear(series[s].points, j))
                       => Stored(rows, pt.x, getInstitutionLabel(series[s].name),
                                 ExpectedCell(pt.y))
  /\ GenderPivoted =>
       LET rows == genderChartData
           series == genderComparisonResult.series
       IN  \A s \in DOMAIN series :
             series[s].name \in {"M", "F"} =>
               \A j \in DOMAIN series[s].points :
                 LET pt == series[s].points[j]
                 IN  (pt.x >= yearFrom /\ pt.x <= yearTo /\ LastOfYear(series[s].points, j))
                       => Stored(rows, pt.x, SexLabel(series[s].name), ExpectedCell(pt.y))

C5_Witness ==
  /\ TrendPivoted
  /\ comparativeResult =
       Response(<<Series("nus", <<[x |-> DefaultMaxYear, y |-> Num(0)]>>),
                  Series("ntu", RefFull)>>)
  /\ Includes(selectedInstitutions, "nus")
  /\ yearTo = DefaultMaxYear
  /\ Stored(trendChartData, DefaultMaxYear, "NUS", Null)
  /\ Stored(trendChartData, DefaultMaxYear, "NTU", Num(3 + NumYears))

\* the selected institutions that have a series with an in-range point
PivotedLabels ==
  {getInstitutionLabel(comparativeResult.series[s].name) :
     s \in {s2 \in DOMAIN comparativeResult.series :
              /\ Includes(selectedInstitutions, comparativeResult.series[s2].name)
              /\ \E j \in DOMAIN comparativeResult.series[s2].points :
                   /\ comparativeResult.series[s2].points[j].x >= yearFrom
                   /\ comparativeResult.series[s2].points[j].x <= yearTo}}

\* C6: every historical row has the year key and a key for every selected
\* series of the pivot, null when the series has no observation at the year.
C6_KeysNeverOmitted ==
  TrendPivoted =>
    LET rows == trendChartData
    IN  \A i \in DOMAIN rows :
          IsHistorical(rows[i]) =>
            /\ "year" \in DOMAIN rows[i]
            /\ \A label \in PivotedLabels : label \in DOMAIN rows[i]

\* C7: the pivot's rows lie in [yearFrom, yearTo], each comes from a point of
\* a selected series, and no row carries a key of an unselected series.
C7_RangeAndSelection ==
  TrendPivoted =>
    LET rows == trendChartData
        series == comparativeResult.series
    IN  \A i \in DOMAIN rows :
          /\ IsHistorical(rows[i]) =>
               /\ rows[i]["year"] >= yearFrom
               /\ rows[i]["year"] <= yearTo
               /\ \E s \in DOMAIN series :
                    /\ Includes(selectedInstitutions, series[s].name)
                    /\ \E j \in DOMAIN series[s].points :
                         series[s].points[j].x = rows[i]["year"]
          /\ DOMAIN rows[i] \subseteq
               {"year", "isForecast"} \cup SelectedLabels
                 \cup {ForecastKey(label) : label \in SelectedLabels}

C7_Witness ==
  /\ TrendPivoted
  /\ comparativeResult =
       Response(<<Series("nus", <<[x |-> FirstYear, y |-> Num(8)]>>),
                  Series("ntu", RefFull)>>)
  /\ ~Includes(selectedInstitutions, "nus")
  /\ maxYear = DefaultMaxYear /\ yearTo = FirstYear
  /\ Len(trendChartData) = 1
  /\ trendChartData[1]["year"] = FirstYear
  /\ DOMAIN trendChartData[1] = {"year", "isForecast", "NTU"}

HasForecastRows(rows) == \E i \in DOMAIN rows : rows[i]["isForecast"] = TRUE

NonNull(row, key) == Get(row, key) \notin {Null, Undefined}

\* the anchor on the last row of `historical` inside `rows`
Anchored(rows, historical, keys) ==
  HasForecastRows(rows) =>
    LET n == Len(historical)
    IN  \A k \in keys :
          /\ Get(rows[n], k) = Get(historical[n], k)
          /\ NonNull(rows[n], k) =>
               /\ ForecastKey(k) \in DOMAIN rows[n]
               /\ rows[n][ForecastKey(k)] = rows[n][k]

\* C8: when forecast rows are generated, the last historical row holds
\* "<name>_forecast" equal to its "<name>" value for every series that is
\* non-null there, and the "<name>" value itself is unchanged.
C8_AnchorDuplicated ==
  /\ TrendPivoted => Anchored(trendChartData, TrendHistorical, SelectedLabels)
  /\ GenderPivoted => Anchored(genderChartData, GenderHistorical, {"Male", "Female"})

C8_Witness ==
  /\ TrendPivoted
  /\ HasForecastRows(trendChartData)
  /\ LET last == trendChartData[Len(TrendHistorical)]
     IN  /\ last["year"] = DefaultMaxYear
         /\ Get(last, "NUS") = Num(8) /\ Get(last, "NUS_forecast") = Num(8)
         /\ Get(last, "NTU") = Num(3 + NumYears) /\ Get(last, "NTU_forecast") = Num(3 + NumYears)

\* the number of historical rows holding a number under `key`
UsableCount(historical, key) ==
  Cardinality({i \in DOMAIN historical : Get(historical[i], key).t = "num"})

\* C9: every generated row has isForecast = true and, for each forecastable
\* series, "<name>" present as null and "<name>_forecast" present as a
\* number; every historical row has isForecast = false.
C9_ForecastRowShape ==
  analysisMode = "trend" =>
    LET rows == trendChartData
        historical == IF HasSeries(comparativeResult) THEN TrendHistorical ELSE TrendTotals
        n == Len(historical)
    IN  /\ Len(rows) >= n
        /\ \A i \in 1..n : rows[i]["isForecast"] = FALSE
        /\ \A i \in (n + 1)..Len(rows) :
             /\ rows[i]["isForecast"] = TRUE
             /\ \A k \in SelectedLabels :
                  UsableCount(historical, k) >= 2 =>
                    /\ k \in DOMAIN rows[i] /\ rows[i][k] = Null
                    /\ ForecastKey(k) \in DOMAIN rows[i]
                    /\ rows[i][ForecastKey(k)].t = "num"

C9_Witness ==
  /\ TrendPivoted
  /\ Len(trendChartData) = Len(TrendHistorical) + FORECAST_YEARS
  /\ UsableCount(TrendHistorical, "NUS") = 1
  /\ UsableCount(TrendHistorical, "NTU") = NumYears
  /\ LET row == trendChartData[Len(TrendHistorical) + 1]
     IN  /\ row["isForecast"] = TRUE
         /\ "NUS" \notin DOMAIN row /\ "NUS_forecast" \notin DOMAIN row
         /\ Get(row, "NTU") = Null /\ Get(row, "NTU_forecast") = Num(4 + NumYears)

\* C10: if series A has 1 usable historical value and series B at least 2,
\* every generated row has B_forecast, no row at all has an A_forecast key,
\* and no row is dropped.
C10_PartialSuccess ==
  (TrendPivoted /\ HasForecastRows(trendChartData)) =>
    LET rows == trendChartData
        historical == TrendHistorical
        n == Len(historical)
    IN  \A a \in SelectedLabels, b \in SelectedLabels :
          (UsableCount(historical, a) = 1 /\ UsableCount(historical, b) >= 2) =>
            /\ Len(rows) = n + FORECAST_YEARS
            /\ \A i \in (n + 1)..Len(rows) :
                 ForecastKey(b) \in DOMAIN rows[i] /\ rows[i][ForecastKey(b)].t = "num"
            /\ \A i \in DOMAIN rows : ForecastKey(a) \notin DOMAIN rows[i]

(***************************************************************************)
(* Claims about the forecast block (checked under SpecModes)               *)
(***************************************************************************)
GrowthPivoted == analysisMode = "growth" /\ HasSeries(comparativeResult)

\* C11: when the historical rows of a chart are fewer than 2, the chart data
\* are exactly the historical rows (no forecast row, no anchor key), whatever
\* the forecast toggle and the year window.
C11_TooFewRows ==
  /\ (TrendPivoted /\ Len(TrendHistorical) < 2) => trendChartData = TrendHistorical
  /\ (GrowthPivoted /\ Len(GrowthHistorical) < 2) => growthChartData = GrowthHistorical
  /\ (GenderPivoted /\ Len(GenderHistorical) < 2) => genderChartData = GenderHistorical

C11_Witness ==
  /\ TrendPivoted
  /\ showForecast /\ yearTo = maxYear /\ yearFrom = yearTo
  /\ Len(TrendHistorical) = 1
  /\ trendChartData = TrendHistorical
  /\ NonNull(trendChartData[1], "NUS")

\* the keys a row may carry besides the "<name>_forecast" keys
PlainKeys ==
  {"year", "isForecast", "Total", "Male", "Female"}
    \cup {getInstitutionLabel(k) : k \in DOMAIN INSTITUTION_LABELS}

NoForecastIn(rows) ==
  \A i \in DOMAIN rows :
    /\ rows[i]["isForecast"] = FALSE
    /\ DOMAIN rows[i] \subseteq PlainKeys

\* C12: while yearTo differs from maxYear the trend, growth and gender chart
\* data have no row with isForecast = true and no "_forecast" key, even with
\* the forecast toggle on.
C12_OnlyAtLatestYear ==
  yearTo # maxYear =>
    /\ NoForecastIn(trendChartData)
    /\ NoForecastIn(growthChartData)
    /\ NoForecastIn(genderChartData)

C12_Witness ==
  /\ yearTo # maxYear /\ showForecast
  /\ GrowthPivoted
  /\ Len(GrowthHistorical) >= 2
  /\ growthChartData = GrowthHistorical
  /\ NonNull(growthChartData[1], "NUS")

StrictlyAscendingYears(rows) ==
  \A i \in 1..(Len(rows) - 1) : rows[i]["year"] < rows[i + 1]["year"]

\* C14: the generated rows follow the historical rows in horizon order, the
\* h-th one has year = (year of the last historical row) + h, and the years
\* of the whole sequence are strictly ascending.
C14_ForecastYears ==
  (TrendPivoted /\ HasForecastRows(trendChartData)) =>
    LET rows == trendChartData
        n == Len(TrendHistorical)
    IN  /\ Len(rows) = n + FORECAST_YEARS
        /\ \A h \in 1..FORECAST_YEARS :
             /\ rows[n + h]["isForecast"] = TRUE
             /\ rows[n + h]["year"] = TrendHistorical[n]["year"] + h
        /\ StrictlyAscendingYears(rows)

\* d[key] of every row
Column(historical, key) == [d \in DOMAIN historical |-> Get(historical[d], key)]

Abs(x) == IF DecIsNeg(x) THEN DecNeg(x) ELSE x

IsInteger(x) == DecFloor(x) = x

\* v is x rounded to `places` decimal places: a multiple of 10^-places at
\* distance at most half a unit from x
RoundedTo(v, x, places) ==
  LET unit == Dec(1, places)
  IN  /\ IsInteger(DecMul(v, IF places = 0 THEN Num(1) ELSE Num(10)))
      /\ DecLeq(DecMul(Abs(DecSub(v, x)), Num(2)), unit)

\* the generated rows hold, for every key with a forecast, the forecast of
\* the key's historical column rounded to `places` decimals
ForecastsRounded(rows, historical, keys, places) ==
  HasForecastRows(rows) =>
    LET n == Len(historical)
    IN  \A k \in keys :
          LET f == holtForecast(Column(historical, k), FORECAST_YEARS, Undefined, Undefined)
          IN  \A h \in 1..FORECAST_YEARS :
                IF h <= Len(f)
                THEN RoundedTo(Get(rows[n + h], ForecastKey(k)), f[h], places)
                ELSE ForecastKey(k) \notin DOMAIN rows[n + h]

\* C16: on generated rows every "_forecast" value is the Holt output rounded
\* to the nearest integer in trend and gender mode and to one decimal place
\* in growth mode; the rounding is applied to the output of holtForecast.
C16_RoundingPolicy ==
  /\ TrendPivoted => ForecastsRounded(trendChartData, TrendHistorical, SelectedLabels, 0)
  /\ GenderPivoted => ForecastsRounded(genderChartData, GenderHistorical, {"Male", "Female"}, 0)
  /\ GrowthPivoted => ForecastsRounded(growthChartData, GrowthHistorical, SelectedLabels, 1)

C16_Witness ==
  /\ GrowthPivoted
  /\ HasForecastRows(growthChartData)
  /\ LET n == Len(GrowthHistorical)
         f == holtForecast(Column(GrowthHistorical, "NUS"), FORECAST_YEARS, Undefined, Undefined)
     IN  /\ Column(GrowthHistorical, "NUS") = <<Num(25), Num(28), Num(25)>>
         /\ f[2] = Dec(3484, 2)
         /\ growthChartData[n + 2]["NUS_forecast"] = Dec(348, 1)

\* C20: in every analysis mode and for every state of the forecast toggle
\* the rows given to the raw-data table include no row with isForecast = true.
C20_TableHasNoForecast ==
  \A i \in DOMAIN tableData :
    "isForecast" \in DOMAIN tableData[i] => tableData[i]["isForecast"] = FALSE

(***************************************************************************)
(* Claims about the sex filter and the auto-disable effect (checked under  *)
(* SpecRefetch)                                                            *)
(***************************************************************************)
\* C13: once the auto-disable effect has run for the current yearTo and
\* maxYear, yearTo # maxYear implies showForecast = false; and the forecast
\* option is not offered while yearTo # maxYear.
C13_ForecastReset ==
  yearTo # maxYear =>
    /\ ~needsForecastOption
    /\ EffectsFlushed => showForecast = FALSE

C13_Witness ==
  /\ EffectsFlushed
  /\ timeSeriesResult = TimeSeriesFor("F")
  /\ yearTo = DefaultMaxYear /\ maxYear = DefaultMaxYear - 1
  /\ showForecast = FALSE
  /\ ~needsForecastOption

\* what a settled request does to its state variable
Applied(settled, old, new) ==
  IF settled.status = "fulfilled" THEN new = settled.value ELSE new = old

\* C17: when handleSexChange resumes after its three requests have settled,
\* every state variable whose request succeeded holds the response, every
\* one whose request failed keeps its value, and isRefreshing is false;
\* for every combination of successes and failures.
C17_IndependentRefetch ==
  [][(sexCall.st = "settled" /\ sexCall'.st = "idle") =>
       /\ Applied(sexCall.timeSeries, timeSeriesResult, timeSeriesResult')
       /\ Applied(sexCall.groupBy, groupByResult, groupByResult')
       /\ IF sexCall.withComparative
          THEN Applied(sexCall.comparative, comparativeResult, comparativeResult')
          ELSE comparativeResult' = comparativeResult
       /\ isRefreshing' = FALSE]_vars

\* the time series request failed (the data are still those of the initial
\* load) while the group-by and comparative requests of the call succeeded
C17_Witness ==
  /\ sexCall = Idle /\ isRefreshing = FALSE
  /\ sex = "F"
  /\ timeSeriesResult = TimeSeriesFor("MF")
  /\ groupByResult = GroupByFor("F")
  /\ comparativeResult = ComparativeFor("F")

(***************************************************************************)
(* Claims about the application shell (checked under SpecApp)              *)
(***************************************************************************)
\* C18: in the application as configured the Dashboard and Intake Analytics
\* pages are rendered only for a user whose auth status is "authenticated".
C18_ProtectedPages ==
  devMode = DEV_MODE =>
    (Rendered \in {"Dashboard", "IntakeAnalytics"} => authStatus = "authenticated")

\* C19: every request sent to the backend API while the session holds an id
\* token carries the header Authorization: Bearer <token>.
C19_JwtAttached ==
  \A r \in requests :
    r.sessionToken # None => r.authorization = Bearer(r.sessionToken)


(***************************************************************************)
(* Claims about pollJobResult (checked under SpecPoll and SpecPollFair)    *)
(***************************************************************************)
TerminalStatus(status) == status \in {"COMPLETED", "SUCCEEDED", "FAILED"}

\* C21: the call sends at most maxAttempts status requests and none after a
\* terminal response; it returns after the first COMPLETED or SUCCEEDED
\* response, throws 'failed' on the first FAILED response, throws 'timed out'
\* after maxAttempts non-terminal responses; when every request gets its
\* response and every timer fires, the call ends (an HTTP request that
\* rejects ends it with that error).
C21_Terminates ==
  /\ [](statusRequests <= maxAttempts)
  /\ [](pollPc = "returned" =>
          lastStatus \in {"COMPLETED", "SUCCEEDED"} /\ statusRequests = attempts + 1)
  /\ [](pollPc = "failed" => lastStatus = "FAILED" /\ statusRequests = attempts + 1)
  /\ [](pollPc = "timedOut" =>
          /\ attempts = maxAttempts /\ statusRequests = maxAttempts
          /\ ~TerminalStatus(lastStatus))
  /\ [][TerminalStatus(lastStatus) => statusRequests' = statusRequests]_vars
  /\ <>(pollPc \in PollOutcomes)

C21_Witness ==
  /\ maxAttempts = DefaultMaxAttempts
  /\ pollPc = "timedOut"
  /\ statusRequests = DefaultMaxAttempts

\* w + w / 2 for a wait w = n / 2^k
PlusHalf(w) == [n |-> 3 * w.n, k |-> w.k + 1]

SameMs(x, y) == MsLeq(x, y) /\ MsLeq(y, x)

\* C22: the first wait is initialDelay (500 ms), each later wait is
\* min(previous wait * 1.5, 5000); the waits never decrease and every wait
\* lies in [500, 5000].
C22_CappedBackoff ==
  /\ waits # <<>> => waits[1] = Ms(DefaultInitialDelay)
  /\ \A i \in 1..(Len(waits) - 1) :
       /\ IF MsLeq(PlusHalf(waits[i]), Ms(MaxDelay))
          THEN SameMs(waits[i + 1], PlusHalf(waits[i]))
          ELSE waits[i + 1] = Ms(MaxDelay)
       /\ MsLeq(waits[i], waits[i + 1])
  /\ \A i \in DOMAIN waits :
       MsLeq(Ms(DefaultInitialDelay), waits[i]) /\ MsLeq(waits[i], Ms(MaxDelay))

\* 500, 750, 1125, 1687.5, 2531.25, 3796.875, 5000, 5000, ...
C22_Witness ==
  /\ Len(waits) = DefaultMaxAttempts
  /\ SubSeq(waits, 1, 7) = <<Ms(500), Ms(750), Ms(1125), [n |-> 3375, k |-> 1],
                             [n |-> 10125, k |-> 2], [n |-> 30375, k |-> 3], Ms(5000)>>
  /\ waits[DefaultMaxAttempts] = Ms(MaxDelay)

(***************************************************************************)
(* Claims about useJobPoll (checked under SpecHook)                        *)
(***************************************************************************)
\* the requests and timers of the effect that is still mounted
LiveRequests == {r \in getJobRequests : r.isMounted}
LiveTimers == {t \in timers : t.isMounted}

\* C23: while the latest response of the current jobId is QUEUED or RUNNING,
\* isPolling is true and exactly one further poll is under way: one timer of
\* 1500 ms, or the request it has sent; after a SUCCEEDED or FAILED response
\* isPolling is false, nothing is pending, and as long as the jobId stays
\* the same no getJob request is sent and no timer is set.
C23_PollsUntilTerminal ==
  /\ []((mounted /\ HookFlushed /\ lastResponse \in {"QUEUED", "RUNNING"}) =>
          /\ isPolling
          /\ Cardinality(LiveTimers) + Cardinality(LiveRequests) = 1
          /\ \A t \in LiveTimers : t.delay = 1500 /\ t.jobId = selectedJobId
          /\ \A r \in LiveRequests : r.jobId = selectedJobId)
  /\ []((mounted /\ HookFlushed /\ lastResponse \in {"SUCCEEDED", "FAILED"}) =>
          ~isPolling /\ LiveTimers = {} /\ LiveRequests = {})
  /\ [][(mounted /\ HookFlushed /\ lastResponse \in {"SUCCEEDED", "FAILED"}
           /\ selectedJobId' = selectedJobId) =>
          (getJobRequests' \subseteq getJobRequests /\ timers' \subseteq timers)]_vars

C23_Witness ==
  /\ mounted /\ HookFlushed
  /\ selectedJobId = "job-a"
  /\ lastResponse = "SUCCEEDED"
  /\ selectedJob = JobObject("job-a", "SUCCEEDED")
  /\ ~isPolling
  /\ getJobRequests = {} /\ timers = {}

\* a step in which the response to a request of a cleaned-up effect arrives
StaleArrival ==
  \E r \in getJobRequests : ~r.isMounted /\ getJobRequests' = getJobRequests \ {r}

C25_StateOfCurrentJob ==
  (mounted /\ HookFlushed) =>
    /\ selectedJob # Null => selectedJob.jobId = selectedJobId
    /\ jobError # Null => jobError.jobId = selectedJobId

(***************************************************************************)
(* Claims about the result effect of DashboardPage (checked under SpecPage)*)
(***************************************************************************)
\* a step in which the response to a request of a cleaned-up result effect
\* arrives
InactiveArrival ==
  \E r \in resultRequests : ~r.active /\ resultRequests' = resultRequests \ {r}

RaceQuiescent == comparativeRequests = {} /\ sexCall = Idle /\ ComparativeFlushed

\* C26: once every comparative request has completed, comparativeResult is
\* the response to the request for the current selectedInstitutions and sex.
C26_FollowsLatestRequest ==
  (RaceQuiescent /\ Len(selectedInstitutions) >= 2) =>
    comparativeResult = ComparativeOf(selectedInstitutions, sex)


\* last + h * d, the linear extrapolation of a series with constant step d
LinearExtrapolation(vals, h) ==
  DecAdd(Last(vals), DecMul(Num(h), DecSub(vals[2], vals[1])))

\* alpha and beta in (0, 1]; the defaults 0.3 and 0.1 are
SmoothingInRange ==
  /\ alpha = Undefined \/ (DecGt(alpha, Num(0)) /\ DecLeq(alpha, Num(1)))
  /\ beta = Undefined \/ (DecGt(beta, Num(0)) /\ DecLeq(beta, Num(1)))

DecAbs(x) == IF DecIsNeg(x) THEN DecNeg(x) ELSE x

RoundingTolerance == Dec(1, 12)

\* |x - y| <= 1e-12 * (1 + |y|)
WithinRounding(x, y) ==
  DecLeq(DecAbs(DecSub(x, y)), DecMul(RoundingTolerance, DecAdd(Num(1), DecAbs(y))))

=============================================================================
